---- MODULE Spec2Model ----
(***************************************************************************)
(* RaspAP touch panel (raspap_touch_kivy.py): the asynchronous task and    *)
(* state orchestration layer.  Two kinds of execution context exist:       *)
(*   "main"   - the Kivy thread: UI handlers and Clock callbacks;          *)
(*   "worker" - the target of a threading.Thread.                          *)
(* Each action below is one handler, one thread body or one Clock callback *)
(* of the source.                                                          *)
(***************************************************************************)
EXTENDS Integers, Sequences, FiniteSets, Bags, TLC

\* ---------------------------------------------------------------- bounds
\* threads (run_bg jobs and update_async passes) alive at one time
MaxJobs == 2
\* show/hide calls issued by the free caller of SpecBusy
MaxCalls == 10
\* rewrites of /etc/hostapd/hostapd.conf during one behaviour
MaxConfWrites == 1
\* pending one-shot Clock events (reboot hide, GeoIP settle, VPN finish)
MaxTimers == 1
\* firings of the StatePoller interval event during one behaviour
MaxTicks == 2

VARIABLES
    BUSY_DEPTH,          \* line 194
    BUSY_OVERLAY,        \* line 193: TRUE when an overlay object is held
    Window_busy,         \* number of BusyOverlay widgets attached to Window
    calls,               \* history: show/hide calls made so far
    jobs,                \* the bag of threads in flight
    timers,              \* pending one-shot Clock events, by kind
    UiState,             \* STATE, the one UiState instance (line 639)
    _hostapd_cache,      \* UiState._hostapd_cache
    HOSTAPD_CONF,        \* the file /etc/hostapd/hostapd.conf
    _connecting,         \* WifiScreen._connecting
    _speedtest_running,  \* InfoScreen._speedtest_running
    _geoip_pending,      \* RaspApTouchApp._geoip_pending
    Clock_debounce,      \* the Clock's events scheduled at line 1469 that
                         \* have neither run nor been cancelled
    events,              \* the interval events: poller and periodic GeoIP,
                         \* and how often the poller event has fired
    last_snap,           \* history: the snapshot apply_snapshot was last given
    newest,              \* history: the latest poller tick with a snapshot applied
    last_step            \* history: what the latest step did

vars == <<BUSY_DEPTH, BUSY_OVERLAY, Window_busy, calls, jobs, timers, UiState,
          _hostapd_cache, HOSTAPD_CONF, _connecting, _speedtest_running,
          _geoip_pending, Clock_debounce, events, last_snap, newest, last_step>>

busy_vars == <<BUSY_DEPTH, BUSY_OVERLAY, Window_busy, calls>>
store_vars == <<UiState, _geoip_pending, Clock_debounce, last_snap, newest>>
conf_vars == <<_hostapd_cache, HOSTAPD_CONF>>
flag_vars == <<_connecting, _speedtest_running>>

\* Python's None, where a string is expected
PyNone == "<None>"

\* ------------------------------------------------------------ Busy guard
\* The guard as one value, so that the two functions are operators on it.
BusyNow == [depth |-> BUSY_DEPTH, overlay |-> BUSY_OVERLAY, window |-> Window_busy]

\* Variant: show_busy_indicator without `if BUSY_OVERLAY: return`, so that
\* every call builds and attaches an overlay.
show_always_creates(b) ==
    [depth |-> b.depth + 1, overlay |-> TRUE, window |-> b.window + 1]

show_busy_indicator(b) ==
    IF b.overlay
    THEN [b EXCEPT !.depth = b.depth + 1]
    ELSE [depth |-> b.depth + 1, overlay |-> TRUE, window |-> b.window + 1]

max0(n) == IF n > 0 THEN n ELSE 0

\* Variant: hide_busy_indicator without the `BUSY_DEPTH == 0` test, so that
\* any call removes the overlay.
hide_always_removes(b) ==
    LET d == max0(b.depth - 1) IN
    IF b.overlay
    THEN [depth |-> d, overlay |-> FALSE, window |-> b.window - 1]
    ELSE [b EXCEPT !.depth = d]

\* Variant: hide_busy_indicator without max(0, ...).
hide_unfloored(b) ==
    LET d == b.depth - 1 IN
    IF b.overlay /\ d = 0
    THEN [depth |-> d, overlay |-> FALSE, window |-> b.window - 1]
    ELSE [b EXCEPT !.depth = d]

hide_busy_indicator(b) ==
    LET d == max0(b.depth - 1) IN
    IF b.overlay /\ d = 0
    THEN [depth |-> d, overlay |-> FALSE, window |-> b.window - 1]
    ELSE [b EXCEPT !.depth = d]

\* The calls made so far.  "floored" counts the hide calls issued while no
\* show call was outstanding, found from the history alone.
Outstanding(c) == c.enter - c.exit + c.floored

NoteShow(c) == [c EXCEPT !.enter = c.enter + 1]

NoteHide(c) ==
    IF Outstanding(c) = 0
    THEN [c EXCEPT !.exit = c.exit + 1, !.floored = c.floored + 1]
    ELSE [c EXCEPT !.exit = c.exit + 1]

SetBusy(b) ==
    /\ BUSY_DEPTH' = b.depth
    /\ BUSY_OVERLAY' = b.overlay
    /\ Window_busy' = b.window

Show == SetBusy(show_busy_indicator(BusyNow))

Hide == SetBusy(hide_busy_indicator(BusyNow))

\* A caller that issues show and hide calls in any order.
EnterCall ==
    /\ calls.enter + calls.exit < MaxCalls
    /\ Show
    /\ calls' = NoteShow(calls)
    /\ UNCHANGED <<jobs, timers, store_vars, conf_vars, flag_vars, events, last_step>>

ExitCall ==
    /\ calls.enter + calls.exit < MaxCalls
    /\ Hide
    /\ calls' = NoteHide(calls)
    /\ UNCHANGED <<jobs, timers, store_vars, conf_vars, flag_vars, events, last_step>>

\* ------------------------------------------------------------ State store
\* class UiState: the property defaults.  cpu_temp is held in thousandths
\* (the source divides the millidegree reading by 1000); uptime is a
\* sequence of words.
UiStateDefaults ==
    [net_status |-> "INIT", vpn_status |-> "OFF", vpn_name |-> "None",
     ap_status |-> "OFF", cpu_temp |-> 0, geoip |-> "Unknown",
     ap_ssid |-> "N/A", ip_address |-> "N/A", connected_clients |-> 0,
     uptime |-> <<"N/A">>, hostname |-> "N/A", client_ssid |-> "N/A",
     host_iface |-> "wlan0", ap_iface |-> "wlan1"]

\* Variant: _trig bound to geoip as well.
GeoipTriggers_with_geoip ==
    {"net_status", "client_ssid", "vpn_status", "vpn_name", "geoip"}

\* The properties RaspApTouchApp._bind_geoip_triggers binds _trig to.
GeoipTriggers == {"net_status", "client_ssid", "vpn_status", "vpn_name"}

\* Variant: a trigger that leaves alone an event whose delay is already
\* over instead of cancelling it and starting the delay again.
_trigger_geoip_soon_keeps(pending) == IF pending = "due" THEN "due" ELSE "armed"

\* _trigger_geoip_soon: cancel the pending event, schedule a new one.
\* A handle is "None", "armed" (scheduled, its delay not yet over), "due"
\* (its delay is over, the Clock has not run it yet) or "fired".
_trigger_geoip_soon(pending) == "armed"

\* Variant: a trigger that schedules the new event without cancelling the
\* pending one.
schedule_debounce_no_cancel(pending, clock) == clock + 1

\* The Clock's debounce events after _trigger_geoip_soon: lines 1464-1468
\* cancel the event the handle refers to, which takes it out of the Clock
\* when it has not run yet, and line 1469 schedules one.
schedule_debounce(pending, clock) ==
    (IF pending \in {"armed", "due"} THEN clock - 1 ELSE clock) + 1

\* Variant: a property that dispatches on every assignment, changed or not.
setattr_always_dispatches(st, k, v) ==
    [store |-> [st.store EXCEPT ![k] = v],
     notifs |-> Append(st.notifs, k),
     pending |-> IF k \in GeoipTriggers
                 THEN _trigger_geoip_soon(st.pending)
                 ELSE st.pending,
     clock |-> IF k \in GeoipTriggers
                 THEN schedule_debounce(st.pending, st.clock)
                 ELSE st.clock]

\* One property assignment.  A Kivy property dispatches to its observers
\* only when the value changes; the observers of the four trigger
\* properties include _trig.  st = [store, notifs, pending, clock].
setattr_(st, k, v) ==
    IF st.store[k] = v
    THEN st
    ELSE [store |-> [st.store EXCEPT ![k] = v],
          notifs |-> Append(st.notifs, k),
          pending |-> IF k \in GeoipTriggers
                      THEN _trigger_geoip_soon(st.pending)
                      ELSE st.pending,
          clock |-> IF k \in GeoipTriggers
                      THEN schedule_debounce(st.pending, st.clock)
                      ELSE st.clock]

\* The keys of a snapshot dict in insertion order: the order in which
\* collect_snapshot assigns them.
SnapKeyOrder ==
    <<"net_status", "client_ssid", "ap_status", "cpu_temp", "hostname",
      "uptime", "connected_clients", "ap_ssid", "ip_address", "vpn_status",
      "vpn_name">>

items(snap) == SelectSeq(SnapKeyOrder, LAMBDA k : k \in DOMAIN snap)

\* The assignments of keys in order: the store after the first one (nxt)
\* is what the remaining ones start from.
RECURSIVE setattrs(_, _, _)
setattrs(st, keys, snap) ==
    IF keys = <<>>
    THEN st
    ELSE CHOOSE out \in {setattrs(nxt, Tail(keys), snap) :
                            nxt \in {setattr_(st, Head(keys), snap[Head(keys)])}} : TRUE

\* UiState.apply_snapshot: for k, v in snap.items(): setattr(self, k, v)
apply_snapshot(st, snap) == setattrs(st, items(snap), snap)

StNow ==
    [store |-> UiState, notifs |-> <<>>, pending |-> _geoip_pending,
     clock |-> Clock_debounce]

\* ------------------------------------------------- hostapd.conf and cache
\* The file as parse_hostapd_conf sees it: whether it exists, its mtime and
\* the values of its ssid= and interface= lines (PyNone when absent).
ConfAtStart == [exists |-> TRUE, mtime |-> 1, ssid |-> "RaspAP", iface |-> "wlan0"]

parse_hostapd_conf(file) ==
    IF file.exists
    THEN [ssid |-> file.ssid, iface |-> file.iface]
    ELSE [ssid |-> PyNone, iface |-> PyNone]

\* UiState._read_hostapd_cached: the pair returned and the cache afterwards.
_read_hostapd_cached(cache, file) ==
    IF ~file.exists
    THEN [ssid |-> PyNone, iface |-> PyNone, cache |-> cache]
    ELSE IF file.mtime <= cache.mtime
    THEN [ssid |-> cache.ssid, iface |-> cache.iface, cache |-> cache]
    ELSE LET r == parse_hostapd_conf(file) IN
         [ssid |-> r.ssid, iface |-> r.iface,
          cache |-> [mtime |-> file.mtime, ssid |-> r.ssid, iface |-> r.iface]]

\* UiState._determine_interfaces, on the property defaults.
_determine_interfaces(store, ap_interface) ==
    IF ap_interface \in {"wlan0", "wlan1"}
    THEN [store EXCEPT !.ap_iface = ap_interface,
                       !.host_iface = IF ap_interface = "wlan0" THEN "wlan1" ELSE "wlan0"]
    ELSE store

\* ------------------------------------------------------------ the probes
\* What the external tools answer during one collection pass:
\*   ip[iface]  the address _get_ip parses, or PyNone
\*   iwgetid    output of iwgetid -r, Missing when the tool is not installed
\*   hostapd    output of systemctl is-active hostapd
\*   temp       the digits of thermal_zone0/temp, <<>> when the read fails
\*   hostname   output of hostname, "" when it fails
\*   uptime     the words of uptime -p, <<>> when it fails
\*   api        number of active clients the RaspAP API reports, -1 for none
\*   pgrep      output of pgrep -x openvpn, "" when no process runs
Missing == "<FileNotFoundError>"

Probes ==
    { [ip |-> [wlan0 |-> "10.3.141.1", wlan1 |-> "192.168.1.5"],
       iwgetid |-> "Home", hostapd |-> "active", temp |-> <<4, 8, 0, 0, 0>>,
       hostname |-> "raspap", uptime |-> <<"up ", "1 hour">>, api |-> 2,
       pgrep |-> ""],
      [ip |-> [wlan0 |-> "10.3.141.1", wlan1 |-> "192.168.1.5"],
       iwgetid |-> "Home", hostapd |-> "active", temp |-> <<>>,
       hostname |-> "raspap", uptime |-> <<"up ", "2 hours">>, api |-> 1,
       pgrep |-> "812"],
      [ip |-> [wlan0 |-> PyNone, wlan1 |-> PyNone],
       iwgetid |-> "", hostapd |-> "inactive", temp |-> <<5, 2, 0, 0, 0>>,
       hostname |-> "", uptime |-> <<>>, api |-> -1,
       pgrep |-> ""],
      [ip |-> [wlan0 |-> "10.3.141.1", wlan1 |-> "192.168.1.5"],
       iwgetid |-> Missing, hostapd |-> "active", temp |-> <<4, 9, 0, 0, 0>>,
       hostname |-> "raspap", uptime |-> <<"up ", "3 hours">>, api |-> 1,
       pgrep |-> ""] }

\* int(raw) on a string of digits
RECURSIVE int_(_)
int_(digits) ==
    IF digits = <<>>
    THEN 0
    ELSE 10 * int_(SubSeq(digits, 1, Len(digits) - 1)) + digits[Len(digits)]

\* no snapshot: the local s of _work before collect_snapshot returns
NoSnap == [none |-> TRUE]

\* uptime_output.replace("up ", "")
replace_up(words) == SelectSeq(words, LAMBDA w : w # "up ")

\* UiState.collect_snapshot, run with the store `self`, the cache and the
\* file as they are when it runs, and the probe answers p.  The dict is a
\* function on the keys it was given; cpu_temp is set only when the
\* temperature read answers.  run_cmd catches TimeoutExpired and
\* CalledProcessError only: subprocess.run raises FileNotFoundError out of
\* run_cmd and out of collect_snapshot when iwgetid is not installed, before
\* the cache is read.
collect_snapshot(self, cache, file, p) ==
    LET host_ip == p.ip[self.host_iface]
        net == IF host_ip # PyNone THEN "ON" ELSE "OFF"
        hc == _read_hostapd_cached(cache, file)
        ap_ip == p.ip[self.ap_iface]
        base ==
            [net_status |-> net,
             client_ssid |-> IF net = "ON" THEN p.iwgetid ELSE "Disconnected",
             ap_status |-> IF p.hostapd = "active" THEN "ON" ELSE "OFF",
             hostname |-> IF p.hostname # "" THEN p.hostname ELSE "N/A",
             uptime |-> IF p.uptime # <<>> THEN replace_up(p.uptime) ELSE <<"N/A">>,
             connected_clients |-> IF p.api >= 0 THEN p.api ELSE 0,
             ap_ssid |-> IF hc.ssid # PyNone THEN hc.ssid ELSE "N/A",
             ip_address |-> IF ap_ip # PyNone THEN ap_ip ELSE "N/A",
             vpn_status |-> IF p.pgrep # "" THEN "ON" ELSE "OFF",
             vpn_name |-> IF p.pgrep # ""
                          THEN (IF self.vpn_name # "None" THEN self.vpn_name ELSE "ON")
                          ELSE "None"]
        raised == net = "ON" /\ p.iwgetid = Missing
    IN [raised |-> raised,
        snap |-> IF raised THEN NoSnap
                 ELSE IF p.temp # <<>>
                 THEN base @@ ("cpu_temp" :> int_(p.temp))
                 ELSE base,
        cache |-> IF raised THEN cache ELSE hc.cache]

\* ------------------------------------------------------------ the threads
\* A thread is a run_bg job or an update_async pass ("collect").
\*   body   "pending", "returned" or "raised"
\*   sched  its Clock.schedule_once(..., 0) event is queued
\*   calls  how often its completion (on_done, or the apply) has run
\*   got    the arguments on_done received
\*   tick   the firing of the poller event that started it, 0 for the others
\* jobs holds the threads in flight: those whose body is pending or whose
\* event is queued.
NewJob(kind, arg, cb) ==
    [kind |-> kind, arg |-> arg, cb |-> cb, body |-> "pending",
     result |-> PyNone, err |-> PyNone, sched |-> FALSE, calls |-> 0,
     got |-> <<>>, snap |-> NoSnap, tick |-> 0]

NoJob == [NewJob("none", "", FALSE) EXCEPT !.body = "none"]

InFlight(r) == r.body = "pending" \/ r.sched

One(r) == SetToBag({r})

\* threading.Thread(target=...).start()
Start(js, rec) == js (+) One(rec)

\* The bag after thread r has become r2.
Settle(js, r, r2) == IF InFlight(r2) THEN (js (-) One(r)) (+) One(r2) ELSE js (-) One(r)

\* The thread that ended in a step: r2 when it is no longer in flight.
Ended(r2) == IF InFlight(r2) THEN NoJob ELSE r2

Room(n) == BagCardinality(jobs) + n <= MaxJobs

\* run_bg(fn, on_done): line 320
run_bg(js, kind, arg, cb) == Start(js, NewJob(kind, arg, cb))

\* UiState.update_async: line 601
update_async(js) == Start(js, NewJob("collect", "", TRUE))

\* update_async called by firing t of the poller event
update_async_tick(js, t) == Start(js, [NewJob("collect", "", TRUE) EXCEPT !.tick = t])

\* UiState.update_geoip_async: line 621
update_geoip_async(js) == run_bg(js, "geoip", "", TRUE)

\* Variant: _worker whose except branch ends the thread without scheduling
\* _after.
_worker_drops_raise(job, raised, value) ==
    [job EXCEPT !.body = IF raised THEN "raised" ELSE "returned",
                !.result = IF raised THEN PyNone ELSE value,
                !.err = IF raised THEN value ELSE PyNone,
                !.sched = ~raised]

\* run_bg._worker: fn() ran and returned `value` or raised it; then
\* Clock.schedule_once(_after, 0).
_worker(job, raised, value) ==
    [job EXCEPT !.body = IF raised THEN "raised" ELSE "returned",
                !.result = IF raised THEN PyNone ELSE value,
                !.err = IF raised THEN value ELSE PyNone,
                !.sched = TRUE]

\* Variant: _after calling on_done(err, result).
_after_swapped(job) ==
    [job EXCEPT !.sched = FALSE,
                !.calls = IF job.cb THEN job.calls + 1 ELSE job.calls,
                !.got = IF job.cb THEN <<job.err, job.result>> ELSE job.got]

\* run_bg._after: if on_done: on_done(result, err)
_after(job) ==
    [job EXCEPT !.sched = FALSE,
                !.calls = IF job.cb THEN job.calls + 1 ELSE job.calls,
                !.got = IF job.cb THEN <<job.result, job.err>> ELSE job.got]

\* update_async._work: s = self.collect_snapshot(), then
\* Clock.schedule_once(lambda dt: self.apply_snapshot(s), 0).  _work has no
\* try: when collect_snapshot raises, the thread ends there.
_work(job, c) ==
    IF c.raised
    THEN [job EXCEPT !.body = "raised", !.err = Missing]
    ELSE [job EXCEPT !.body = "returned", !.snap = c.snap, !.sched = TRUE]

\* The backends WifiScreen._connect_to._task calls, in order: connect_wpa_cli,
\* then connect_nmcli `if not ok and has_cmd("nmcli")`.
backends_called(wpa_ok, has_nmcli) ==
    IF ~wpa_ok /\ has_nmcli THEN <<"wpa_cli", "nmcli">> ELSE <<"wpa_cli">>

\* Variant: a _task that never falls back on nmcli.
connect_task_primary_only(wpa_ok, has_nmcli, nm_ok) ==
    IF wpa_ok
    THEN [raised |-> FALSE, value |-> "True"]
    ELSE [raised |-> TRUE, value |-> "RuntimeError"]

\* WifiScreen._connect_to._task: the primary backend, then the secondary;
\* ok is the answer of the backend called last.
connect_task(wpa_ok, has_nmcli, nm_ok) ==
    LET ok == IF Len(backends_called(wpa_ok, has_nmcli)) = 2 THEN nm_ok ELSE wpa_ok IN
    IF ok
    THEN [raised |-> FALSE, value |-> "True"]
    ELSE [raised |-> TRUE, value |-> "RuntimeError"]

\* ------------------------------------------------- the Wi-Fi scan pipeline
\* A Python str is the sequence of its code points: str.strip and the order
\* sorted() puts strings in are computed on them.
Home == <<72, 111, 109, 101>>
Office == <<79, 102, 102, 105, 99, 101>>
Cafe == <<67, 97, 102, 101>>

\* The texts the store holds in client_ssid, as Python strs.
encode(text) ==
    CASE text = "Home" -> Home
      [] text = "Office" -> Office
      [] text = "N/A" -> <<78, 47, 65>>
      [] text = "Disconnected" ->
           <<68, 105, 115, 99, 111, 110, 110, 101, 99, 116, 101, 100>>
      [] OTHER -> <<>>

\* The characters str.strip() removes.
Whitespace == {9, 10, 11, 12, 13, 28, 29, 30, 31, 32}

\* s.strip()
RECURSIVE strip(_)
strip(s) ==
    IF s = <<>> THEN s
    ELSE IF Head(s) \in Whitespace THEN strip(Tail(s))
    ELSE IF s[Len(s)] \in Whitespace THEN strip(SubSeq(s, 1, Len(s) - 1))
    ELSE s

\* a < b on strs: the first differing code point decides, a proper prefix
\* is smaller.
RECURSIVE str_lt(_, _)
str_lt(a, b) ==
    IF b = <<>> THEN FALSE
    ELSE IF a = <<>> THEN TRUE
    ELSE IF Head(a) # Head(b) THEN Head(a) < Head(b)
    ELSE str_lt(Tail(a), Tail(b))

\* sorted(list(names)) for a set of strs
RECURSIVE sorted_strs(_)
sorted_strs(names) ==
    IF names = {} THEN <<>>
    ELSE LET least == CHOOSE x \in names : \A y \in names \ {x} : str_lt(x, y)
         IN <<least>> \o sorted_strs(names \ {least})

\* What a saved-network or scan command answered: failed (non-zero exit or
\* timeout, run_cmd gives ""; nmcli returncode != 0) or its parsed output.
Failed == [failed |-> TRUE, out |-> <<>>]
Answer(out) == [failed |-> FALSE, out |-> out]

\* get_saved_networks_wpa_cli(iface)[0]: the stripped names of the listed
\* networks, the empty set when list_networks gives nothing.
get_saved_networks_wpa_cli(ans) ==
    IF ans.failed
    THEN {}
    ELSE {strip(ans.out[i]) : i \in {j \in 1..Len(ans.out) : ans.out[j] # <<>>}}

\* get_saved_networks_nmcli(): set() without nmcli or when the command
\* fails, else the stripped non-empty ssids of the wifi connections.
get_saved_networks_nmcli(has_nmcli, ans) ==
    IF ~has_nmcli \/ ans.failed
    THEN {}
    ELSE {strip(ans.out[i]) : i \in {j \in 1..Len(ans.out) : ans.out[j] # <<>>}}

\* A dict of scan results: the sequence of its items in insertion order,
\* each [ssid, signal, security] with its own ssid.
Keys(d) == {d[i].ssid : i \in 1..Len(d)}
Item(d, k) == d[CHOOSE i \in 1..Len(d) : d[i].ssid = k]

\* d[e.ssid] = e: a new key goes last, an old key keeps its place
setitem(d, e) ==
    IF e.ssid \in Keys(d)
    THEN [i \in 1..Len(d) |-> IF d[i].ssid = e.ssid THEN e ELSE d[i]]
    ELSE Append(d, e)

\* scan_nmcli(iface) / scan_wpa_cli(iface): {} when the list command gives
\* nothing, else one item per non-empty stripped ssid, the strongest kept.
RECURSIVE scan_results(_, _)
scan_results(results, lines) ==
    IF lines = <<>> THEN results
    ELSE LET e == [Head(lines) EXCEPT !.ssid = strip(@)]
             keep == e.ssid # <<>>
                     /\ (e.ssid \notin Keys(results)
                         \/ e.signal > Item(results, e.ssid).signal)
         IN scan_results(IF keep THEN setitem(results, e) ELSE results, Tail(lines))

scan(ans) == IF ans.failed THEN <<>> ELSE scan_results(<<>>, ans.out)

\* Variant: only the networks both backends have saved.
saved_common(saved_wpa, saved_nm) ==
    {strip(x) : x \in saved_wpa} \cap {strip(x) : x \in saved_nm}

\* saved = {s.strip() for s in saved_wpa} | {s.strip() for s in saved_nm}
saved_union(saved_wpa, saved_nm) ==
    {strip(x) : x \in saved_wpa} \cup {strip(x) : x \in saved_nm}

\* Variant: a later source replacing an entry of equal signal.
RECURSIVE merge_src_last_wins(_, _)
merge_src_last_wins(merged, src) ==
    IF src = <<>> THEN merged
    ELSE LET e == Head(src)
             take == e.ssid \notin Keys(merged)
                     \/ e.signal >= Item(merged, e.ssid).signal
         IN merge_src_last_wins(IF take THEN setitem(merged, e) ELSE merged, Tail(src))

\* for ssid, info in src.items(): the entry goes in when the ssid is new or
\* its signal is higher than the one held
RECURSIVE merge_src(_, _)
merge_src(merged, src) ==
    IF src = <<>> THEN merged
    ELSE LET e == Head(src)
             take == e.ssid \notin Keys(merged)
                     \/ e.signal > Item(merged, e.ssid).signal
         IN merge_src(IF take THEN setitem(merged, e) ELSE merged, Tail(src))

\* for src in (nm, wp): ...
merge(nm, wp) == merge_src(merge_src(<<>>, nm), wp)

\* Variant: every scanned network listed, saved or not.
RECURSIVE filter_saved_all(_, _, _)
filter_saved_all(merged, saved, current_ssid) ==
    IF merged = <<>> THEN <<>>
    ELSE LET e == Head(merged)
             name == IF e.ssid # <<>> THEN strip(e.ssid) ELSE <<>>
             rest == filter_saved_all(Tail(merged), saved, current_ssid)
         IN IF name # <<>>
            THEN <<[ssid |-> name, signal |-> e.signal, security |-> e.security,
                    current |-> (name = current_ssid)]>> \o rest
            ELSE rest

\* for ssid, info in merged.items(): the networks that are saved, each
\* tagged current when it is the associated one
RECURSIVE filter_saved(_, _, _)
filter_saved(merged, saved, current_ssid) ==
    IF merged = <<>> THEN <<>>
    ELSE LET e == Head(merged)
             name == IF e.ssid # <<>> THEN strip(e.ssid) ELSE <<>>
             rest == filter_saved(Tail(merged), saved, current_ssid)
         IN IF name # <<>> /\ name \in saved
            THEN <<[ssid |-> name, signal |-> e.signal, security |-> e.security,
                    current |-> (name = current_ssid)]>> \o rest
            ELSE rest

\* Variant: a key that orders by signal alone.
sort_key_signal(x) == <<0, 0 - x.signal>>

\* key=lambda x: (x["current"] is False, -x["signal"]); False is 0, True is 1
sort_key(x) == <<IF x.current = FALSE THEN 1 ELSE 0, 0 - x.signal>>

\* a <= b on the key tuples
key_le(a, b) == a[1] < b[1] \/ (a[1] = b[1] /\ a[2] <= b[2])

\* list.sort is stable: an entry goes behind every entry whose key is not
\* greater than its own
RECURSIVE insert_sorted(_, _)
insert_sorted(done, x) ==
    IF done = <<>> THEN <<x>>
    ELSE IF key_le(sort_key(Head(done)), sort_key(x))
         THEN <<Head(done)>> \o insert_sorted(Tail(done), x)
         ELSE <<x>> \o done

RECURSIVE sort_in_range(_, _)
sort_in_range(done, todo) ==
    IF todo = <<>> THEN done
    ELSE sort_in_range(insert_sorted(done, Head(todo)), Tail(todo))

\* Variant: the current network left in the list.
out_of_range_keeps_current(saved, in_range, current_ssid) ==
    sorted_strs(saved \ {in_range[i].ssid : i \in 1..Len(in_range)})

\* sorted(list((saved - in_range_names) - ({current_ssid} if current_ssid
\* else set())))
out_of_range(saved, in_range, current_ssid) ==
    LET in_range_names == {in_range[i].ssid : i \in 1..Len(in_range)} IN
    sorted_strs((saved \ in_range_names)
                 \ (IF current_ssid # <<>> THEN {current_ssid} ELSE {}))

\* WifiScreen.refresh_networks._task with the answers `a` of the commands it
\* runs: every value it computes, and whether it raises.  The commands of
\* the wpa_cli backend go through sudo; run_cmd lets FileNotFoundError out
\* when sudo is not installed, at the first of them.  scan_nmcli runs only
\* with nmcli installed.
scan_task(current_ssid, a) ==
    LET saved_wpa == get_saved_networks_wpa_cli(a.saved_wpa)
        saved_nm == get_saved_networks_nmcli(a.has_nmcli, a.saved_nm)
        saved == saved_union(saved_wpa, saved_nm)
        nm == IF a.has_nmcli THEN scan(a.scan_nm) ELSE <<>>
        wp == scan(a.scan_wp)
        merged == merge(nm, wp)
        in_range == sort_in_range(<<>>, filter_saved(merged, saved, current_ssid))
    IN
      IF ~a.sudo
      THEN [raised |-> TRUE, value |-> "FileNotFoundError"]
      ELSE [raised |-> FALSE,
            value |-> [in_range |-> in_range,
                       out_of_range |-> out_of_range(saved, in_range, current_ssid)],
            saved_wpa |-> saved_wpa, saved_nm |-> saved_nm, saved |-> saved,
            nm |-> nm, wp |-> wp, merged |-> merged]

\* The answers the commands of a scan are given.  Signals are percentages;
\* each backend prints its own security text.  The wpa_cli backend lists
\* Office with a trailing blank.
Signals == {60, 80}
OfficePadded == Office \o <<32>>

\* The lines a list command can print for the names in `order`: each name
\* absent or present with one of the signals.
Lines(order, security) ==
    {LET all == [i \in 1..Len(order) |->
                   [ssid |-> order[i], signal |-> f[i], security |-> security]]
     IN SelectSeq(all, LAMBDA e : e.signal # 0) :
       f \in [1..Len(order) -> {0} \cup Signals]}

SavedWpaAnswers ==
    {Failed} \cup {Answer(q) : q \in {<<>>, <<Home>>, <<OfficePadded>>, <<Home, OfficePadded>>}}
SavedNmAnswers ==
    {Failed} \cup {Answer(q) : q \in {<<>>, <<Office>>, <<Office, Cafe>>}}
ScanNmAnswers == {Failed} \cup {Answer(q) : q \in Lines(<<Home, Cafe>>, "WPA2")}
ScanWpAnswers ==
    {Failed} \cup {Answer(q) : q \in Lines(<<Cafe, OfficePadded, Home>>, "[WPA2-PSK-CCMP][ESS]")}

\* Without sudo nothing answers; without nmcli its commands are not run.
ScanAnswers ==
    {[sudo |-> FALSE, has_nmcli |-> h, saved_wpa |-> Failed, saved_nm |-> Failed,
      scan_nm |-> Failed, scan_wp |-> Failed] : h \in BOOLEAN}
    \cup {[sudo |-> TRUE, has_nmcli |-> FALSE, saved_wpa |-> sw, saved_nm |-> Failed,
           scan_nm |-> Failed, scan_wp |-> cw] :
            sw \in SavedWpaAnswers, cw \in ScanWpAnswers}
    \cup {[sudo |-> TRUE, has_nmcli |-> TRUE, saved_wpa |-> sw, saved_nm |-> sn,
           scan_nm |-> cn, scan_wp |-> cw] :
            sw \in SavedWpaAnswers, sn \in SavedNmAnswers,
            cn \in ScanNmAnswers, cw \in ScanWpAnswers}

\* The answers of a scan where only Home is saved and nothing is in range,
\* and of a scan without sudo.
SteadyScans ==
    {[sudo |-> TRUE, has_nmcli |-> TRUE, saved_wpa |-> Answer(<<Home>>),
      saved_nm |-> Failed, scan_nm |-> Failed, scan_wp |-> Failed],
     [sudo |-> FALSE, has_nmcli |-> TRUE, saved_wpa |-> Failed,
      saved_nm |-> Failed, scan_nm |-> Failed, scan_wp |-> Failed]}

\* The texts client_ssid can hold: the default, collect_snapshot's
\* "Disconnected" and what iwgetid prints.
StoreSsids == {"N/A", "Disconnected", "", "Home"}

\* What the disconnect sequence of the chosen backend can do: every command
\* answers, run_cmd swallows a failure or a timeout, or a command raises
\* (sudo is not installed; the nmcli call times out).
DisconnectAnswers == {"ok", "failed", "raised"}

\* The network ids wpa_cli list_networks can print.
ListedNets == {<<>>, <<"0">>}

\* Variant: disconnect_client_wifi without the try around the backend.
disconnect_client_wifi_untried(has_nmcli, answer, nets) ==
    LET listed == IF answer = "ok" THEN nets ELSE <<>>
        backend ==
            IF has_nmcli
            THEN <<"nmcli device disconnect">>
            ELSE IF answer = "raised"
                 THEN <<"wpa_cli disconnect">>
                 ELSE <<"wpa_cli disconnect", "wpa_cli list_networks">>
                      \o [i \in 1..Len(listed) |-> "wpa_cli disable_network"]
                      \o <<"wpa_cli save_config">>
    IN
      IF answer = "raised"
      THEN [ran |-> backend, raised |-> TRUE]
      ELSE [ran |-> backend \o <<"ip addr flush">>, raised |-> FALSE]

\* disconnect_client_wifi: the commands it runs, in order, and whether it
\* raises.  Both backend sequences and the flush sit in try/except Exception.
\* The wpa_cli sequence stops at the command that raises; it disables the
\* listed networks only when list_networks answers.
disconnect_client_wifi(has_nmcli, answer, nets) ==
    LET listed == IF answer = "ok" THEN nets ELSE <<>>
        backend ==
            IF has_nmcli
            THEN <<"nmcli device disconnect">>
            ELSE IF answer = "raised"
                 THEN <<"wpa_cli disconnect">>
                 ELSE <<"wpa_cli disconnect", "wpa_cli list_networks">>
                      \o [i \in 1..Len(listed) |-> "wpa_cli disable_network"]
                      \o <<"wpa_cli save_config">>
    IN
      [ran |-> backend \o <<"ip addr flush">>, raised |-> FALSE]

\* What a body can do, by kind.
Outcomes(kind) ==
    CASE kind = "scan" ->
           {[raised |-> scan_task(strip(encode(c)), a).raised,
             value |-> scan_task(strip(encode(c)), a).value] :
               a \in SteadyScans, c \in StoreSsids}
      [] kind = "connect" ->
           {connect_task(w, h, n) : w \in BOOLEAN, h \in BOOLEAN, n \in BOOLEAN}
      [] kind = "disconnect" -> {[raised |-> FALSE, value |-> "True"]}
      [] kind = "speedtest" ->
           {[raised |-> FALSE, value |-> "speeds"],
            [raised |-> TRUE, value |-> "RuntimeError"]}
      [] kind = "vpn_toggle" ->
           {[raised |-> FALSE, value |-> "True"],
            [raised |-> TRUE, value |-> "FileNotFoundError"]}
      [] kind = "vpn_disconnect" -> {[raised |-> FALSE, value |-> "True"]}
      [] kind = "reboot" -> {[raised |-> FALSE, value |-> "CompletedProcess"]}
      [] kind = "geoip" ->
           {[raised |-> FALSE, value |-> "Paris, France"],
            [raised |-> TRUE, value |-> "ConnectionError"]}
      [] OTHER -> {}

RunBgKinds ==
    {"scan", "connect", "disconnect", "speedtest", "vpn_toggle",
     "vpn_disconnect", "reboot", "geoip"}

\* ------------------------------------------------------- the step history
\* What the latest step did:
\*   access    <<context, datum, "read" | "write" | "call">> for each shared
\*             datum it touched, with the context it ran in
\*   notifs    the properties whose observers it notified, in order
\*   changed   the properties it was given a new value for
\*   done      the thread that ended in it, or NoJob
\*   messages  the titles it passed to show_message
\*   event     the Clock event that fired or the Wi-Fi handler that was
\*             called in it, "none" for another step
\*   task      for the body of a Wi-Fi job (field job: its kind): what its
\*             commands answered and what the body did with that
\*   rows      the rows it added to the list of the Wi-Fi screen
NoTask == [job |-> "none"]

Quiet ==
    [access |-> {}, notifs |-> <<>>, changed |-> {}, done |-> NoJob,
     messages |-> <<>>, event |-> "none", task |-> NoTask, rows |-> <<>>]

Touches(ctx, pairs) == {<<ctx, q[1], q[2]>> : q \in pairs}

\* What a step of a thread does outside the program: run a command
\* (run_cmd, subprocess.run) or send an HTTP request.
ProcessIO == {<<"subprocess", "call">>}
NetworkIO == {<<"HTTP", "call">>}

\* The shared data a body touches from its thread and the I/O it does, by
\* kind (line 1152: the disconnect body reads STATE.host_iface; the lookup
\* is one HTTP.get; the speed test measures over the network, through the
\* speedtest module or its command).
BodyTouches(kind) ==
    (IF kind = "disconnect" THEN {<<"UiState", "read">>} ELSE {})
    \cup (IF kind = "geoip" THEN {} ELSE ProcessIO)
    \cup (IF kind \in {"geoip", "speedtest"} THEN NetworkIO ELSE {})

\* ---------------------------------------------------------- worker bodies
\* The thread of run_bg job r: its body ends with outcome o and _after is
\* scheduled.
RunBgWorker(r, o) ==
    /\ r.kind \in RunBgKinds \ {"scan", "connect", "disconnect"}
    /\ r.body = "pending"
    /\ o \in Outcomes(r.kind)
    /\ LET r2 == _worker(r, o.raised, o.value) IN
         /\ jobs' = Settle(jobs, r, r2)
         /\ last_step' = [Quiet EXCEPT !.access = Touches("worker", BodyTouches(r.kind)),
                                       !.done = Ended(r2)]
    /\ UNCHANGED <<busy_vars, timers, store_vars, conf_vars, flag_vars, events>>

\* The thread of connect job r: _task runs with the primary backend
\* answering wpa_ok, has_cmd("nmcli") answering has_nmcli and the secondary
\* backend answering nm_ok.
ConnectWorker(r, wpa_ok, has_nmcli, nm_ok) ==
    /\ r.kind = "connect"
    /\ r.body = "pending"
    /\ LET o == connect_task(wpa_ok, has_nmcli, nm_ok)
           r2 == _worker(r, o.raised, o.value)
       IN
         /\ jobs' = Settle(jobs, r, r2)
         /\ last_step' =
              [Quiet EXCEPT
                 !.access = Touches("worker", BodyTouches(r.kind)),
                 !.done = Ended(r2),
                 !.task = [job |-> "connect",
                           wpa_ok |-> wpa_ok, has_nmcli |-> has_nmcli,
                           nm_ok |-> nm_ok,
                           called |-> backends_called(wpa_ok, has_nmcli),
                           raised |-> o.raised]]
    /\ UNCHANGED <<busy_vars, timers, store_vars, conf_vars, flag_vars, events>>

\* The thread of scan job r: refresh_networks._task runs with the answers a
\* and the current_ssid read when the job was submitted.
ScanWorker(r, a) ==
    /\ r.kind = "scan"
    /\ r.body = "pending"
    /\ LET current_ssid == strip(encode(r.arg))
           t == scan_task(current_ssid, a)
           r2 == _worker(r, t.raised, t.value)
       IN
         /\ jobs' = Settle(jobs, r, r2)
         /\ last_step' =
              [Quiet EXCEPT
                 !.access = Touches("worker", BodyTouches(r.kind)),
                 !.done = Ended(r2),
                 !.task = [job |-> "scan", a |-> a, current_ssid |-> current_ssid,
                           out |-> t]]
    /\ UNCHANGED <<busy_vars, timers, store_vars, conf_vars, flag_vars, events>>

\* The thread of disconnect job r: on_disconnect._task runs
\* disconnect_client_wifi(STATE.host_iface), sleeps and returns True.
DisconnectWorker(r, has_nmcli, answer, nets) ==
    /\ r.kind = "disconnect"
    /\ r.body = "pending"
    /\ LET d == disconnect_client_wifi(has_nmcli, answer, nets)
           r2 == _worker(r, d.raised, IF d.raised THEN "FileNotFoundError" ELSE "True")
       IN
         /\ jobs' = Settle(jobs, r, r2)
         /\ last_step' =
              [Quiet EXCEPT
                 !.access = Touches("worker", BodyTouches(r.kind)),
                 !.done = Ended(r2),
                 !.task = [job |-> "disconnect", has_nmcli |-> has_nmcli,
                           answer |-> answer, ran |-> d.ran, raised |-> d.raised]]
    /\ UNCHANGED <<busy_vars, timers, store_vars, conf_vars, flag_vars, events>>

\* Variant: _work calling self.apply_snapshot(s) itself, in its thread,
\* instead of scheduling it.
UpdateWork_applies(r, p) ==
    /\ r.kind = "collect"
    /\ r.body = "pending"
    /\ LET c == collect_snapshot(UiState, _hostapd_cache, HOSTAPD_CONF, p)
           st == apply_snapshot(StNow, c.snap)
           r2 == [r EXCEPT !.body = "returned", !.snap = c.snap, !.calls = 1]
       IN
         /\ jobs' = Settle(jobs, r, r2)
         /\ _hostapd_cache' = c.cache
         /\ UiState' = st.store
         /\ _geoip_pending' = st.pending
         /\ Clock_debounce' = st.clock
         /\ last_snap' = c.snap
         /\ newest' = IF r.tick > newest THEN r.tick ELSE newest
         /\ last_step' =
              [Quiet EXCEPT
                 !.access = Touches("worker",
                     {<<"UiState", "read">>, <<"UiState", "write">>,
                      <<"_hostapd_cache", "read">>}),
                 !.notifs = st.notifs,
                 !.changed = {k \in DOMAIN c.snap : UiState[k] # c.snap[k]},
                 !.done = Ended(r2)]
    /\ UNCHANGED <<busy_vars, timers, HOSTAPD_CONF, flag_vars, events>>

\* The thread of update_async pass r, the probes answering p.  The pass
\* reads the store and reads and refreshes the cache in its thread.
UpdateWork(r, p) ==
    /\ r.kind = "collect"
    /\ r.body = "pending"
    /\ LET c == collect_snapshot(UiState, _hostapd_cache, HOSTAPD_CONF, p)
           r2 == _work(r, c)
       IN
         /\ jobs' = Settle(jobs, r, r2)
         /\ _hostapd_cache' = c.cache
         /\ last_step' =
              [Quiet EXCEPT
                 !.access = Touches("worker",
                     {<<"UiState", "read">>} \cup ProcessIO
                     \cup (IF c.raised THEN {} ELSE NetworkIO \cup {<<"_hostapd_cache", "read">>})
                     \cup (IF c.cache # _hostapd_cache
                           THEN {<<"_hostapd_cache", "write">>} ELSE {})),
                 !.done = Ended(r2)]
    /\ UNCHANGED <<busy_vars, timers, store_vars, HOSTAPD_CONF, flag_vars, events>>

\* ------------------------------------------------------- Clock callbacks
TimerKinds == {"reboot_hide", "geoip_settle", "vpn_finish"}

\* Clock.schedule_once(f, delay) with delay > 0 has room for one more event
TimerRoom == timers["reboot_hide"] + timers["geoip_settle"] + timers["vpn_finish"] < MaxTimers

OnDone == {<<"on_done", "call">>}
BusyWrite == {<<"BUSY_DEPTH", "write">>}
StoreWrite == {<<"UiState", "write">>}
StoreRead == {<<"UiState", "read">>}

\* Variant: an apply that drops the snapshot of a poller tick older than
\* one already applied.
ApplyCallback_generation(r) ==
    /\ r.kind = "collect"
    /\ r.sched
    /\ LET stale == r.tick < newest
           st == IF stale THEN StNow ELSE apply_snapshot(StNow, r.snap)
           r2 == _after(r)
       IN
         /\ UiState' = st.store
         /\ _geoip_pending' = st.pending
         /\ Clock_debounce' = st.clock
         /\ last_snap' = IF stale THEN last_snap ELSE r.snap
         /\ newest' = IF r.tick > newest THEN r.tick ELSE newest
         /\ jobs' = Settle(jobs, r, r2)
         /\ last_step' =
              [Quiet EXCEPT !.access = Touches("main", StoreWrite),
                            !.notifs = st.notifs,
                            !.changed = {k \in DOMAIN r.snap : UiState[k] # r.snap[k]},
                            !.done = Ended(r2)]
    /\ UNCHANGED <<busy_vars, timers, conf_vars, flag_vars, events>>

\* lambda dt: self.apply_snapshot(s), line 600
ApplyCallback(r) ==
    /\ r.kind = "collect"
    /\ r.sched
    /\ LET st == apply_snapshot(StNow, r.snap)
           r2 == _after(r)
       IN
         /\ UiState' = st.store
         /\ _geoip_pending' = st.pending
         /\ Clock_debounce' = st.clock
         /\ last_snap' = r.snap
         /\ newest' = IF r.tick > newest THEN r.tick ELSE newest
         /\ jobs' = Settle(jobs, r, r2)
         /\ last_step' =
              [Quiet EXCEPT !.access = Touches("main", StoreWrite),
                            !.notifs = st.notifs,
                            !.changed = {k \in DOMAIN r.snap : UiState[k] # r.snap[k]},
                            !.done = Ended(r2)]
    /\ UNCHANGED <<busy_vars, timers, conf_vars, flag_vars, events>>

\* Variant: _done taking empty lists for a failed scan.
list_rows_empty_fails(result, err) ==
    IF err # PyNone
    THEN <<"Scan failed">>
    ELSE IF DOMAIN result = {}
    THEN <<"No saved networks found.">>
    ELSE IF result.in_range = <<>> /\ result.out_of_range = <<>>
    THEN <<"Scan failed">>
    ELSE [i \in 1..Len(result.in_range) |->
            IF result.in_range[i].current THEN "button (current)" ELSE "button"]
         \o (IF result.out_of_range # <<>> THEN <<"Saved (out of range):">> ELSE <<>>)
         \o [i \in 1..Len(result.out_of_range) |-> "button (out of range)"]

\* The rows refresh_networks._done puts in the list: one notice, or a
\* button per network in range, then the header and a disabled button per
\* saved network out of range.  Without err, result is the dict _task
\* returned, and `not result` asks whether it has no key.
list_rows(result, err) ==
    IF err # PyNone
    THEN <<"Scan failed">>
    ELSE IF DOMAIN result = {}
    THEN <<"No saved networks found.">>
    ELSE IF result.in_range = <<>> /\ result.out_of_range = <<>>
    THEN <<"No saved networks found in range.">>
    ELSE [i \in 1..Len(result.in_range) |->
            IF result.in_range[i].current THEN "button (current)" ELSE "button"]
         \o (IF result.out_of_range # <<>> THEN <<"Saved (out of range):">> ELSE <<>>)
         \o [i \in 1..Len(result.out_of_range) |-> "button (out of range)"]

\* Variant: _done releasing the Busy Guard only after the failure test.
ScanDone_hides_on_success(r) ==
    /\ r.kind = "scan"
    /\ r.sched
    /\ IF r.err = PyNone
       THEN Hide
       ELSE UNCHANGED <<BUSY_DEPTH, BUSY_OVERLAY, Window_busy>>
    /\ jobs' = Settle(jobs, r, _after(r))
    /\ last_step' = [Quiet EXCEPT !.access = Touches("main", OnDone \cup BusyWrite),
                                  !.done = Ended(_after(r)),
                                  !.rows = list_rows(r.result, r.err)]
    /\ UNCHANGED <<calls, timers, store_vars, conf_vars, flag_vars, events>>

\* WifiScreen.refresh_networks._done
ScanDone(r) ==
    /\ r.kind = "scan"
    /\ r.sched
    /\ Hide
    /\ jobs' = Settle(jobs, r, _after(r))
    /\ last_step' = [Quiet EXCEPT !.access = Touches("main", OnDone \cup BusyWrite),
                                  !.done = Ended(_after(r)),
                                  !.rows = list_rows(r.result, r.err)]
    /\ UNCHANGED <<calls, timers, store_vars, conf_vars, flag_vars, events>>

\* Variant: _done calling update_geoip_async at once instead of a second later.
ConnectDone_immediate(r) ==
    /\ r.kind = "connect"
    /\ r.sched
    /\ Hide
    /\ _connecting' = FALSE
    /\ IF r.err # PyNone
       THEN /\ jobs' = Settle(jobs, r, _after(r))
            /\ last_step' = [Quiet EXCEPT !.access = Touches("main", OnDone \cup BusyWrite),
                                          !.done = Ended(_after(r)),
                                          !.messages = <<"Wi-Fi">>]
       ELSE /\ jobs' = update_geoip_async(update_async(Settle(jobs, r, _after(r))))
            /\ last_step' = [Quiet EXCEPT !.access = Touches("main", OnDone \cup BusyWrite),
                                          !.done = Ended(_after(r))]
    /\ UNCHANGED <<calls, timers, store_vars, conf_vars, _speedtest_running, events>>

\* Variant: _done refreshing the store after a failure as well.
ConnectDone_refreshes(r) ==
    /\ r.kind = "connect"
    /\ r.sched
    /\ Hide
    /\ _connecting' = FALSE
    /\ IF r.err # PyNone
       THEN /\ jobs' = update_async(Settle(jobs, r, _after(r)))
            /\ last_step' = [Quiet EXCEPT !.access = Touches("main", OnDone \cup BusyWrite),
                                          !.done = Ended(_after(r)),
                                          !.messages = <<"Wi-Fi">>]
            /\ UNCHANGED timers
       ELSE /\ TimerRoom
            /\ jobs' = update_async(Settle(jobs, r, _after(r)))
            /\ timers' = [timers EXCEPT !["geoip_settle"] = @ + 1]
            /\ last_step' = [Quiet EXCEPT !.access = Touches("main", OnDone \cup BusyWrite),
                                          !.done = Ended(_after(r))]
    /\ UNCHANGED <<calls, store_vars, conf_vars, _speedtest_running, events>>

\* Variant: _done resetting _connecting in its success branch only.
ConnectDone_resets_on_success(r) ==
    /\ r.kind = "connect"
    /\ r.sched
    /\ Hide
    /\ IF r.err # PyNone
       THEN /\ jobs' = Settle(jobs, r, _after(r))
            /\ last_step' = [Quiet EXCEPT !.access = Touches("main", OnDone \cup BusyWrite),
                                          !.done = Ended(_after(r)),
                                          !.messages = <<"Wi-Fi">>]
            /\ UNCHANGED <<timers, _connecting>>
       ELSE /\ TimerRoom
            /\ _connecting' = FALSE
            /\ jobs' = update_async(Settle(jobs, r, _after(r)))
            /\ timers' = [timers EXCEPT !["geoip_settle"] = @ + 1]
            /\ last_step' = [Quiet EXCEPT !.access = Touches("main", OnDone \cup BusyWrite),
                                          !.done = Ended(_after(r))]
    /\ UNCHANGED <<calls, store_vars, conf_vars, _speedtest_running, events>>

\* WifiScreen._connect_to._done
ConnectDone(r) ==
    /\ r.kind = "connect"
    /\ r.sched
    /\ Hide
    /\ _connecting' = FALSE
    /\ IF r.err # PyNone
       THEN /\ jobs' = Settle(jobs, r, _after(r))
            /\ last_step' = [Quiet EXCEPT !.access = Touches("main", OnDone \cup BusyWrite),
                                          !.done = Ended(_after(r)),
                                          !.messages = <<"Wi-Fi">>]
            /\ UNCHANGED timers
       ELSE /\ TimerRoom
            /\ jobs' = update_async(Settle(jobs, r, _after(r)))
            /\ timers' = [timers EXCEPT !["geoip_settle"] = @ + 1]
            /\ last_step' = [Quiet EXCEPT !.access = Touches("main", OnDone \cup BusyWrite),
                                          !.done = Ended(_after(r))]
    /\ UNCHANGED <<calls, store_vars, conf_vars, _speedtest_running, events>>

\* WifiScreen.on_disconnect._done
DisconnectDone(r) ==
    /\ r.kind = "disconnect"
    /\ r.sched
    /\ Hide
    /\ IF r.err # PyNone
       THEN /\ jobs' = Settle(jobs, r, _after(r))
            /\ last_step' = [Quiet EXCEPT !.access = Touches("main", OnDone \cup BusyWrite),
                                          !.done = Ended(_after(r)),
                                          !.messages = <<"Wi-Fi">>]
       ELSE /\ jobs' = update_async(Settle(jobs, r, _after(r)))
            /\ last_step' = [Quiet EXCEPT !.access = Touches("main", OnDone \cup BusyWrite),
                                          !.done = Ended(_after(r))]
    /\ UNCHANGED <<calls, timers, store_vars, conf_vars, flag_vars, events>>

\* InfoScreen.run_speed_test._done
SpeedDone(r) ==
    /\ r.kind = "speedtest"
    /\ r.sched
    /\ Hide
    /\ _speedtest_running' = FALSE
    /\ jobs' = Settle(jobs, r, _after(r))
    /\ last_step' = [Quiet EXCEPT !.access = Touches("main", OnDone \cup BusyWrite),
                                  !.done = Ended(_after(r)),
                                  !.messages = IF r.err # PyNone
                                               THEN <<"Speed Test">> ELSE <<>>]
    /\ UNCHANGED <<calls, timers, store_vars, conf_vars, _connecting, events>>

\* VpnScreen.toggle_vpn._done
ToggleDone(r) ==
    /\ r.kind = "vpn_toggle"
    /\ r.sched
    /\ Hide
    /\ IF r.err # PyNone
       THEN /\ jobs' = Settle(jobs, r, _after(r))
            /\ last_step' = [Quiet EXCEPT !.access = Touches("main", OnDone \cup BusyWrite),
                                          !.done = Ended(_after(r)),
                                          !.messages = <<"Error">>]
            /\ UNCHANGED <<UiState, _geoip_pending, Clock_debounce>>
       ELSE LET st == setattrs(StNow, <<"vpn_name", "vpn_status">>,
                               [vpn_name |-> r.arg, vpn_status |-> "ON"]) IN
            /\ UiState' = st.store
            /\ _geoip_pending' = st.pending
            /\ Clock_debounce' = st.clock
            /\ jobs' = update_geoip_async(Settle(jobs, r, _after(r)))
            /\ last_step' =
                 [Quiet EXCEPT !.access = Touches("main", OnDone \cup BusyWrite
                                                          \cup StoreWrite),
                               !.notifs = st.notifs,
                               !.done = Ended(_after(r))]
    /\ UNCHANGED <<calls, timers, last_snap, newest, conf_vars, flag_vars, events>>

\* VpnScreen.disconnect_vpn._done
VpnDisconnectDone(r) ==
    /\ r.kind = "vpn_disconnect"
    /\ r.sched
    /\ TimerRoom
    /\ Hide
    /\ LET st == setattrs(StNow, <<"vpn_name", "vpn_status">>,
                          [vpn_name |-> "None", vpn_status |-> "OFF"]) IN
         /\ UiState' = st.store
         /\ _geoip_pending' = st.pending
         /\ Clock_debounce' = st.clock
         /\ last_step' =
              [Quiet EXCEPT !.access = Touches("main", OnDone \cup BusyWrite
                                                       \cup StoreWrite \cup StoreRead),
                            !.notifs = st.notifs,
                            !.done = Ended(_after(r))]
    /\ jobs' = Settle(jobs, r, _after(r))
    /\ timers' = [timers EXCEPT !["vpn_finish"] = @ + 1]
    /\ UNCHANGED <<calls, last_snap, newest, conf_vars, flag_vars, events>>

\* Variant: a _done that leaves geoip as it is when the lookup failed.
GeoipDone_keeps(r) ==
    /\ r.kind = "geoip"
    /\ r.sched
    /\ LET st == IF r.err # PyNone THEN StNow ELSE setattr_(StNow, "geoip", r.result) IN
         /\ UiState' = st.store
         /\ _geoip_pending' = st.pending
         /\ Clock_debounce' = st.clock
         /\ last_step' =
              [Quiet EXCEPT !.access = Touches("main", OnDone \cup StoreWrite),
                            !.notifs = st.notifs,
                            !.done = Ended(_after(r))]
    /\ jobs' = Settle(jobs, r, _after(r))
    /\ UNCHANGED <<busy_vars, timers, last_snap, newest, conf_vars, flag_vars, events>>

\* UiState.update_geoip_async._done
GeoipDone(r) ==
    /\ r.kind = "geoip"
    /\ r.sched
    /\ LET st == setattr_(StNow, "geoip",
                          IF r.err # PyNone THEN "Unknown" ELSE r.result) IN
         /\ UiState' = st.store
         /\ _geoip_pending' = st.pending
         /\ Clock_debounce' = st.clock
         /\ last_step' =
              [Quiet EXCEPT !.access = Touches("main", OnDone \cup StoreWrite),
                            !.notifs = st.notifs,
                            !.done = Ended(_after(r))]
    /\ jobs' = Settle(jobs, r, _after(r))
    /\ UNCHANGED <<busy_vars, timers, last_snap, newest, conf_vars, flag_vars, events>>

\* _after of the reboot/shutdown job, which has no on_done
RebootAfter(r) ==
    /\ r.kind = "reboot"
    /\ r.sched
    /\ jobs' = Settle(jobs, r, _after(r))
    /\ last_step' = [Quiet EXCEPT !.done = Ended(_after(r))]
    /\ UNCHANGED <<busy_vars, timers, store_vars, conf_vars, flag_vars, events>>

\* -------------------------------------------------------------- handlers
\* The networks a row button can name, and the VPN profiles of config.json.
SSIDs == {"Office"}
VpnProfiles == {"Work"}

\* The Wi-Fi handlers start with `if self._connecting: return`: a call made
\* while a connect job is in flight is a step that changes nothing.
Rejected(handler) ==
    /\ _connecting
    /\ last_step' = [Quiet EXCEPT !.event = handler]
    /\ UNCHANGED <<busy_vars, jobs, timers, store_vars, conf_vars, flag_vars, events>>

\* Variant: refresh_networks without the _connecting test.
refresh_networks_unguarded ==
    /\ events.started
    /\ Room(1)
    /\ Show
    /\ jobs' = run_bg(jobs, "scan", UiState.client_ssid, TRUE)
    /\ last_step' = [Quiet EXCEPT !.access = Touches("main", BusyWrite \cup StoreRead),
                                  !.event = "refresh_networks"]
    /\ UNCHANGED <<calls, timers, store_vars, conf_vars, flag_vars, events>>

\* WifiScreen.refresh_networks (on_enter and the Refresh button).  The job
\* keeps the client_ssid read at line 1173.
refresh_networks ==
    /\ events.started
    /\ \/ Rejected("refresh_networks")
       \/ /\ ~_connecting
          /\ Room(1)
          /\ Show
          /\ jobs' = run_bg(jobs, "scan", UiState.client_ssid, TRUE)
          /\ last_step' = [Quiet EXCEPT !.access = Touches("main", BusyWrite \cup StoreRead),
                                        !.event = "refresh_networks"]
          /\ UNCHANGED <<calls, timers, store_vars, conf_vars, flag_vars, events>>

\* WifiScreen.on_disconnect
on_disconnect ==
    /\ events.started
    /\ \/ Rejected("on_disconnect")
       \/ /\ ~_connecting
          /\ Room(1)
          /\ Show
          /\ jobs' = run_bg(jobs, "disconnect", "", TRUE)
          /\ last_step' = [Quiet EXCEPT !.access = Touches("main", BusyWrite),
                                        !.event = "on_disconnect"]
          /\ UNCHANGED <<calls, timers, store_vars, conf_vars, flag_vars, events>>

\* Variant: _connect_to without the _connecting test.
_connect_to_unguarded(ssid) ==
    /\ events.started
    /\ Room(1)
    /\ _connecting' = TRUE
    /\ Show
    /\ jobs' = run_bg(jobs, "connect", ssid, TRUE)
    /\ last_step' = [Quiet EXCEPT !.access = Touches("main", BusyWrite \cup StoreRead),
                                  !.event = "_connect_to"]
    /\ UNCHANGED <<calls, timers, store_vars, conf_vars, _speedtest_running, events>>

\* WifiScreen._connect_to
_connect_to(ssid) ==
    /\ events.started
    /\ \/ Rejected("_connect_to")
       \/ /\ ~_connecting
          /\ Room(1)
          /\ _connecting' = TRUE
          /\ Show
          /\ jobs' = run_bg(jobs, "connect", ssid, TRUE)
          /\ last_step' = [Quiet EXCEPT !.access = Touches("main", BusyWrite \cup StoreRead),
                                        !.event = "_connect_to"]
          /\ UNCHANGED <<calls, timers, store_vars, conf_vars, _speedtest_running, events>>

\* InfoScreen.refresh, called by on_pre_enter and every update_interval
\* while the screen is shown: it runs STATE._get_ip(STATE.host_iface), a
\* command, and copies the store into the labels.
refresh ==
    /\ events.started
    /\ last_step' = [Quiet EXCEPT !.access = Touches("main", StoreRead \cup ProcessIO),
                                  !.event = "info_refresh"]
    /\ UNCHANGED <<busy_vars, jobs, timers, store_vars, conf_vars, flag_vars, events>>

\* Variant: run_speed_test without the _speedtest_running test.
run_speed_test_unguarded(host_ip) ==
    /\ events.started
    /\ IF host_ip = PyNone
       THEN /\ last_step' = [Quiet EXCEPT !.access = Touches("main", StoreRead
                                                                     \cup ProcessIO),
                                          !.messages = <<"Speed Test">>]
            /\ UNCHANGED <<busy_vars, jobs, _speedtest_running>>
       ELSE /\ Room(1)
            /\ _speedtest_running' = TRUE
            /\ Show
            /\ jobs' = run_bg(jobs, "speedtest", "", TRUE)
            /\ last_step' = [Quiet EXCEPT !.access = Touches("main", BusyWrite
                                                         \cup StoreRead \cup ProcessIO)]
            /\ UNCHANGED calls
    /\ UNCHANGED <<timers, store_vars, conf_vars, _connecting, events>>

\* InfoScreen.run_speed_test: refused while a test runs, refused when
\* _get_ip finds no address (host_ip), started otherwise.  _get_ip runs its
\* command in the handler.
run_speed_test(host_ip) ==
    /\ events.started
    /\ IF _speedtest_running
       THEN /\ last_step' = [Quiet EXCEPT !.messages = <<"Speed Test">>]
            /\ UNCHANGED <<busy_vars, jobs, _speedtest_running>>
       ELSE IF host_ip = PyNone
       THEN /\ last_step' = [Quiet EXCEPT !.access = Touches("main", StoreRead
                                                                     \cup ProcessIO),
                                          !.messages = <<"Speed Test">>]
            /\ UNCHANGED <<busy_vars, jobs, _speedtest_running>>
       ELSE /\ Room(1)
            /\ _speedtest_running' = TRUE
            /\ Show
            /\ jobs' = run_bg(jobs, "speedtest", "", TRUE)
            /\ last_step' = [Quiet EXCEPT !.access = Touches("main", BusyWrite
                                                         \cup StoreRead \cup ProcessIO)]
            /\ UNCHANGED calls
    /\ UNCHANGED <<timers, store_vars, conf_vars, _connecting, events>>

\* VpnScreen.toggle_vpn
toggle_vpn(display_name) ==
    /\ events.started
    /\ Room(1)
    /\ Show
    /\ jobs' = run_bg(jobs, "vpn_toggle", display_name, TRUE)
    /\ last_step' = [Quiet EXCEPT !.access = Touches("main", BusyWrite)]
    /\ UNCHANGED <<calls, timers, store_vars, conf_vars, flag_vars, events>>

\* VpnScreen.disconnect_vpn
disconnect_vpn ==
    /\ events.started
    /\ Room(1)
    /\ Show
    /\ jobs' = run_bg(jobs, "vpn_disconnect", "", TRUE)
    /\ last_step' = [Quiet EXCEPT !.access = Touches("main", BusyWrite)]
    /\ UNCHANGED <<calls, timers, store_vars, conf_vars, flag_vars, events>>

\* SystemScreen._confirm_and_run._do: OK pressed on reboot or shutdown
_do ==
    /\ events.started
    /\ Room(1)
    /\ TimerRoom
    /\ Show
    /\ jobs' = run_bg(jobs, "reboot", "", FALSE)
    /\ timers' = [timers EXCEPT !["reboot_hide"] = @ + 1]
    /\ last_step' = [Quiet EXCEPT !.access = Touches("main", BusyWrite)]
    /\ UNCHANGED <<calls, store_vars, conf_vars, flag_vars, events>>

\* ----------------------------------------------------------------- timers
\* Variant: the 15 s event fires without calling hide_busy_indicator.
RebootHideTimer_nohide ==
    /\ timers["reboot_hide"] > 0
    /\ timers' = [timers EXCEPT !["reboot_hide"] = @ - 1]
    /\ last_step' = Quiet
    /\ UNCHANGED <<busy_vars, jobs, store_vars, conf_vars, flag_vars, events>>

\* lambda dt: hide_busy_indicator(), 15 s after _do
RebootHideTimer ==
    /\ timers["reboot_hide"] > 0
    /\ timers' = [timers EXCEPT !["reboot_hide"] = @ - 1]
    /\ Hide
    /\ last_step' = [Quiet EXCEPT !.access = Touches("main", BusyWrite),
                                  !.event = "reboot_hide"]
    /\ UNCHANGED <<calls, jobs, store_vars, conf_vars, flag_vars, events>>

\* lambda dt: STATE.update_geoip_async(), 1 s after a connect succeeded
GeoipSettleTimer ==
    /\ timers["geoip_settle"] > 0
    /\ Room(1)
    /\ timers' = [timers EXCEPT !["geoip_settle"] = @ - 1]
    /\ jobs' = update_geoip_async(jobs)
    /\ last_step' = [Quiet EXCEPT !.event = "geoip_settle"]
    /\ UNCHANGED <<busy_vars, store_vars, conf_vars, flag_vars, events>>

\* VpnScreen.finish_vpn_action, 0.8 s after a VPN disconnect completed
finish_vpn_action ==
    /\ timers["vpn_finish"] > 0
    /\ Room(2)
    /\ timers' = [timers EXCEPT !["vpn_finish"] = @ - 1]
    /\ jobs' = update_geoip_async(update_async(jobs))
    /\ last_step' = [Quiet EXCEPT !.event = "vpn_finish"]
    /\ UNCHANGED <<busy_vars, store_vars, conf_vars, flag_vars, events>>

\* Time passes: the delay of the pending debounce event is over.
DebounceElapse ==
    /\ _geoip_pending = "armed"
    /\ _geoip_pending' = "due"
    /\ last_step' = Quiet
    /\ UNCHANGED <<busy_vars, jobs, timers, UiState, Clock_debounce, last_snap, newest, conf_vars,
                   flag_vars, events>>

\* The debounce event of _trigger_geoip_soon fires.
DebounceFire ==
    /\ _geoip_pending = "due"
    /\ Room(1)
    /\ _geoip_pending' = "fired"
    /\ Clock_debounce' = Clock_debounce - 1
    /\ jobs' = update_geoip_async(jobs)
    /\ last_step' = [Quiet EXCEPT !.event = "debounce"]
    /\ UNCHANGED <<busy_vars, timers, UiState, last_snap, newest, conf_vars, flag_vars, events>>

\* RaspApTouchApp.on_start
on_start ==
    /\ ~events.started
    /\ Room(2)
    /\ events' = [started |-> TRUE, poller |-> TRUE, geoip_periodic |-> TRUE,
                  ticks |-> 0]
    /\ jobs' = update_geoip_async(update_async(jobs))
    /\ last_step' = Quiet
    /\ UNCHANGED <<busy_vars, timers, store_vars, conf_vars, flag_vars>>

\* The StatePoller interval event: lambda dt: self.state.update_async()
PollerTick ==
    /\ events.poller
    /\ events.ticks < MaxTicks
    /\ Room(1)
    /\ jobs' = update_async_tick(jobs, events.ticks + 1)
    /\ events' = [events EXCEPT !.ticks = @ + 1]
    /\ last_step' = [Quiet EXCEPT !.event = "poller"]
    /\ UNCHANGED <<busy_vars, timers, store_vars, conf_vars, flag_vars>>

\* StatePoller.stop: cancel the interval event.  No code of the app calls
\* it; SpecTicks lets a caller do so.
stop ==
    /\ events.poller
    /\ events' = [events EXCEPT !.poller = FALSE]
    /\ last_step' = [Quiet EXCEPT !.event = "stop"]
    /\ UNCHANGED <<busy_vars, jobs, timers, store_vars, conf_vars, flag_vars>>

\* Variant: a periodic firing that takes the place of the pending debounce
\* event.
GeoipPeriodicTick_consumes ==
    /\ events.geoip_periodic
    /\ Room(1)
    /\ jobs' = update_geoip_async(jobs)
    /\ _geoip_pending' = IF _geoip_pending \in {"armed", "due"}
                         THEN "fired" ELSE _geoip_pending
    /\ Clock_debounce' = IF _geoip_pending \in {"armed", "due"}
                         THEN Clock_debounce - 1 ELSE Clock_debounce
    /\ last_step' = [Quiet EXCEPT !.event = "geoip_periodic"]
    /\ UNCHANGED <<busy_vars, timers, UiState, last_snap, newest, conf_vars,
                   flag_vars, events>>

\* Variant: the periodic lookup scheduled as a one-shot event.
GeoipPeriodicTick_once ==
    /\ events.geoip_periodic
    /\ Room(1)
    /\ jobs' = update_geoip_async(jobs)
    /\ events' = [events EXCEPT !.geoip_periodic = FALSE]
    /\ last_step' = [Quiet EXCEPT !.event = "geoip_periodic"]
    /\ UNCHANGED <<busy_vars, timers, store_vars, conf_vars, flag_vars>>

\* The periodic GeoIP interval event
GeoipPeriodicTick ==
    /\ events.geoip_periodic
    /\ Room(1)
    /\ jobs' = update_geoip_async(jobs)
    /\ last_step' = [Quiet EXCEPT !.event = "geoip_periodic"]
    /\ UNCHANGED <<busy_vars, timers, store_vars, conf_vars, flag_vars, events>>

\* Environment: hostapd.conf is rewritten with another ssid.
ConfRewrite ==
    /\ HOSTAPD_CONF.mtime < ConfAtStart.mtime + MaxConfWrites
    /\ HOSTAPD_CONF' = [HOSTAPD_CONF EXCEPT !.mtime = @ + 1, !.ssid = "RaspAP-5G"]
    /\ last_step' = Quiet
    /\ UNCHANGED <<busy_vars, jobs, timers, store_vars, _hostapd_cache, flag_vars,
                   events>>

\* --------------------------------------------------------- specifications
\* The state after module import (STATE = UiState()) and App.build().
Init ==
    LET r == _read_hostapd_cached([mtime |-> 0, ssid |-> PyNone, iface |-> PyNone],
                                  ConfAtStart) IN
    /\ BUSY_DEPTH = 0
    /\ BUSY_OVERLAY = FALSE
    /\ Window_busy = 0
    /\ calls = [enter |-> 0, exit |-> 0, floored |-> 0]
    /\ jobs = EmptyBag
    /\ timers = [k \in TimerKinds |-> 0]
    /\ UiState = _determine_interfaces(UiStateDefaults, r.iface)
    /\ _hostapd_cache = r.cache
    /\ HOSTAPD_CONF = ConfAtStart
    /\ _connecting = FALSE
    /\ _speedtest_running = FALSE
    /\ _geoip_pending = "None"
    /\ Clock_debounce = 0
    /\ events = [started |-> FALSE, poller |-> FALSE, geoip_periodic |-> FALSE,
                 ticks |-> 0]
    /\ last_snap = NoSnap
    /\ newest = 0
    /\ last_step = Quiet

Handlers ==
    \/ refresh_networks
    \/ on_disconnect
    \/ \E ssid \in SSIDs : _connect_to(ssid)
    \/ \E ip \in {PyNone, "192.168.1.5"} : run_speed_test(ip)
    \/ \E name \in VpnProfiles : toggle_vpn(name)
    \/ disconnect_vpn
    \/ _do

Workers ==
    \E r \in BagToSet(jobs) :
        \/ \E o \in Outcomes(r.kind) : RunBgWorker(r, o)
        \/ \E w, h, n \in BOOLEAN : ConnectWorker(r, w, h, n)
        \/ \E a \in ScanAnswers : ScanWorker(r, a)
        \/ \E h \in BOOLEAN, a \in DisconnectAnswers, nets \in ListedNets :
             DisconnectWorker(r, h, a, nets)
        \/ \E p \in Probes : UpdateWork(r, p)

Callbacks ==
    \E r \in BagToSet(jobs) :
        \/ ApplyCallback(r)
        \/ ScanDone(r)
        \/ ConnectDone(r)
        \/ DisconnectDone(r)
        \/ SpeedDone(r)
        \/ ToggleDone(r)
        \/ VpnDisconnectDone(r)
        \/ GeoipDone(r)
        \/ RebootAfter(r)

OneShots ==
    \/ RebootHideTimer
    \/ GeoipSettleTimer
    \/ finish_vpn_action
    \/ DebounceElapse
    \/ DebounceFire

Intervals == PollerTick \/ GeoipPeriodicTick

Next ==
    \/ on_start
    \/ Handlers
    \/ refresh
    \/ Workers
    \/ Callbacks
    \/ OneShots
    \/ Intervals
    \/ ConfRewrite

Spec == Init /\ [][Next]_vars

\* The operations that use the Busy Guard, in any interleaving, with the
\* events they schedule, while the probes keep answering the same and every
\* lookup succeeds.  The debounce event is left to SpecGeoip.
SteadyProbes == {p \in Probes : p.api = 2}

NextGuard ==
    \/ on_start
    \/ Handlers
    \/ RebootHideTimer
    \/ GeoipSettleTimer
    \/ finish_vpn_action
    \/ Callbacks
    \/ \E r \in BagToSet(jobs) :
         \/ \E p \in SteadyProbes : UpdateWork(r, p)
         \/ /\ r.kind \in RunBgKinds \ {"scan", "connect", "disconnect"}
            /\ \E o \in Outcomes(r.kind) :
                 (r.kind = "geoip" => ~o.raised) /\ RunBgWorker(r, o)
         \/ \E w, h, n \in BOOLEAN : ConnectWorker(r, w, h, n)
         \/ \E a \in SteadyScans : ScanWorker(r, a)
         \/ \E h \in BOOLEAN, a \in DisconnectAnswers, nets \in ListedNets :
              DisconnectWorker(r, h, a, nets)

SpecGuard == Init /\ [][NextGuard]_vars

\* The same with the Info screen shown and refreshing.
NextScreens == NextGuard \/ refresh

SpecScreens == Init /\ [][NextScreens]_vars

\* The Wi-Fi screen: its three handlers, their jobs and what they start.
NextWifi ==
    \/ on_start
    \/ refresh_networks
    \/ on_disconnect
    \/ \E ssid \in SSIDs : _connect_to(ssid)
    \/ GeoipSettleTimer
    \/ \E r \in BagToSet(jobs) :
         \/ \E p \in SteadyProbes : UpdateWork(r, p)
         \/ \E o \in Outcomes(r.kind) : RunBgWorker(r, o)
         \/ \E w, h, n \in BOOLEAN : ConnectWorker(r, w, h, n)
         \/ \E a \in SteadyScans : ScanWorker(r, a)
         \/ \E h \in BOOLEAN, a \in DisconnectAnswers, nets \in ListedNets :
              DisconnectWorker(r, h, a, nets)
         \/ ApplyCallback(r)
         \/ ScanDone(r)
         \/ ConnectDone(r)
         \/ DisconnectDone(r)
         \/ GeoipDone(r)

SpecWifi == Init /\ [][NextWifi]_vars

\* The connect attempts alone, with the jobs and the event they start.
NextConnect ==
    \/ on_start
    \/ \E ssid \in SSIDs : _connect_to(ssid)
    \/ GeoipSettleTimer
    \/ \E r \in BagToSet(jobs) :
         \/ \E p \in SteadyProbes : UpdateWork(r, p)
         \/ \E o \in Outcomes(r.kind) : RunBgWorker(r, o)
         \/ \E w, h, n \in BOOLEAN : ConnectWorker(r, w, h, n)
         \/ ApplyCallback(r)
         \/ ConnectDone(r)
         \/ GeoipDone(r)

\* Scheduling of these jobs: a started thread runs until its body ends
\* (every command of a body has a timeout, every sleep is bounded), the
\* Clock runs each event scheduled with delay 0 in a later frame and each
\* one-shot event once its delay is over.  The handlers are the user's and
\* have no fairness.
FairConnect ==
    /\ WF_vars(\E r \in BagToSet(jobs) : \E p \in SteadyProbes : UpdateWork(r, p))
    /\ WF_vars(\E r \in BagToSet(jobs) : \E o \in Outcomes(r.kind) : RunBgWorker(r, o))
    /\ WF_vars(\E r \in BagToSet(jobs) : \E w, h, n \in BOOLEAN : ConnectWorker(r, w, h, n))
    /\ WF_vars(\E r \in BagToSet(jobs) : ApplyCallback(r))
    /\ WF_vars(\E r \in BagToSet(jobs) : ConnectDone(r))
    /\ WF_vars(\E r \in BagToSet(jobs) : GeoipDone(r))
    /\ WF_vars(GeoipSettleTimer)

SpecConnect == Init /\ [][NextConnect]_vars /\ FairConnect

\* The lookups: the one of on_start, the periodic ones and the one the
\* debounce event submits after the first pass has changed the store.
NextLookup ==
    \/ on_start
    \/ GeoipPeriodicTick
    \/ DebounceElapse
    \/ DebounceFire
    \/ \E r \in BagToSet(jobs) :
         \/ \E p \in SteadyProbes : UpdateWork(r, p)
         \/ \E o \in Outcomes(r.kind) : RunBgWorker(r, o)
         \/ ApplyCallback(r)
         \/ GeoipDone(r)

\* Scheduling: Kivy calls on_start once the app runs; the Clock fires the
\* interval event of line 1486 every geoip_interval seconds and each
\* one-shot event once its delay is over; a started thread runs until its
\* body ends (HTTP.get has a timeout) and the Clock then runs its _after.
FairLookup ==
    /\ WF_vars(on_start)
    /\ WF_vars(GeoipPeriodicTick)
    /\ WF_vars(DebounceElapse)
    /\ WF_vars(DebounceFire)
    /\ WF_vars(\E r \in BagToSet(jobs) : \E p \in SteadyProbes : UpdateWork(r, p))
    /\ WF_vars(\E r \in BagToSet(jobs) : \E o \in Outcomes(r.kind) : RunBgWorker(r, o))
    /\ WF_vars(\E r \in BagToSet(jobs) : ApplyCallback(r))
    /\ WF_vars(\E r \in BagToSet(jobs) : GeoipDone(r))

SpecLookup == Init /\ [][NextLookup]_vars /\ FairLookup

\* The scan pipeline: one refresh at a time, started once the first pass
\* and the first lookup are over, run with every answer of the commands.
\* The passes before it find the client associated with Home, associated
\* with nothing (iwgetid prints nothing) or without address.
ScanProbes ==
    {p \in Probes : p.api # 1}
    \cup {[p EXCEPT !.iwgetid = ""] : p \in {q \in Probes : q.api = 2}}

NextScan ==
    \/ on_start
    \/ (jobs = EmptyBag /\ refresh_networks)
    \/ \E r \in BagToSet(jobs) :
         \/ \E p \in ScanProbes : UpdateWork(r, p)
         \/ \E o \in Outcomes(r.kind) : ~o.raised /\ RunBgWorker(r, o)
         \/ \E a \in ScanAnswers : ScanWorker(r, a)
         \/ ApplyCallback(r)
         \/ GeoipDone(r)
         \/ ScanDone(r)

SpecScan == Init /\ [][NextScan]_vars

\* The poller and the lookups, without the operator.
NextPoll ==
    \/ on_start
    \/ Intervals
    \/ DebounceElapse
    \/ DebounceFire
    \/ ConfRewrite
    \/ \E r \in BagToSet(jobs) :
         \/ \E p \in Probes : UpdateWork(r, p)
         \/ \E o \in Outcomes(r.kind) : RunBgWorker(r, o)
         \/ ApplyCallback(r)
         \/ GeoipDone(r)

SpecPoll == Init /\ [][NextPoll]_vars

\* The GeoIP lookups: the debounced trigger, the periodic event and the
\* passes whose snapshots change the trigger properties.
NextGeoip ==
    \/ on_start
    \/ Intervals
    \/ DebounceElapse
    \/ DebounceFire
    \/ \E r \in BagToSet(jobs) :
         \/ \E p \in Probes : UpdateWork(r, p)
         \/ \E o \in Outcomes(r.kind) : RunBgWorker(r, o)
         \/ ApplyCallback(r)
         \/ GeoipDone(r)

SpecGeoip == Init /\ [][NextGeoip]_vars

\* The Info screen: its refresh and the speed test, with the jobs of
\* on_start.
NextInfo ==
    \/ on_start
    \/ refresh
    \/ \E ip \in {PyNone, "192.168.1.5"} : run_speed_test(ip)
    \/ \E r \in BagToSet(jobs) :
         \/ \E p \in SteadyProbes : UpdateWork(r, p)
         \/ \E o \in Outcomes(r.kind) : RunBgWorker(r, o)
         \/ ApplyCallback(r)
         \/ GeoipDone(r)
         \/ SpeedDone(r)

SpecInfo == Init /\ [][NextInfo]_vars

\* One VPN toggle beside the poller, on a host where pgrep finds an openvpn
\* process in every pass: one runs when the app starts, and the toggle's
\* body replaces it with the profile's.  The profile file exists, and no
\* toggle is issued once one has completed or while one is in flight.
VpnUp == {p \in Probes : p.pgrep # ""}

NextVpn ==
    \/ on_start
    \/ PollerTick
    \/ \E name \in VpnProfiles :
         /\ UiState.vpn_name # name
         /\ \A r \in BagToSet(jobs) : r.kind # "vpn_toggle"
         /\ toggle_vpn(name)
    \/ \E r \in BagToSet(jobs) :
         \/ \E p \in VpnUp : UpdateWork(r, p)
         \/ \E o \in Outcomes(r.kind) : ~o.raised /\ RunBgWorker(r, o)
         \/ ApplyCallback(r)
         \/ ToggleDone(r)
         \/ GeoipDone(r)

SpecVpn == Init /\ [][NextVpn]_vars

\* The poller with a caller that may stop it, and the passes it starts.
NextTicks ==
    \/ on_start
    \/ PollerTick
    \/ stop
    \/ \E r \in BagToSet(jobs) :
         \/ \E p \in Probes : UpdateWork(r, p)
         \/ \E o \in Outcomes(r.kind) : RunBgWorker(r, o)
         \/ ApplyCallback(r)
         \/ GeoipDone(r)

SpecTicks == Init /\ [][NextTicks]_vars

\* The Busy Guard alone, under a caller that shows and hides in any order.
NextBusy == EnterCall \/ ExitCall

SpecBusy == Init /\ [][NextBusy]_vars

\* ------------------------------------------------------------- properties
\* The indicator is on screen when a BusyOverlay is attached to Window.
Visible == Window_busy > 0

\* C5 as stated: for any sequence of show and hide calls the indicator is
\* visible iff the number of show calls minus the number of hide calls made
\* so far is greater than 0.  It fails after hide, show: one call of each,
\* and the overlay is up.
C5_AsStated == Visible <=> (calls.enter - calls.exit > 0)

\* C5, amended: for any sequence of show and hide calls the indicator is
\* visible iff the show calls outnumber the hide calls that were issued
\* while a show call was outstanding (a hide call issued when none is
\* outstanding does not count against a later show call).
C5_VisibleIffOutstanding == Visible <=> (Outstanding(calls) > 0)

C5_Witness == Visible /\ calls.floored > 0 /\ calls.enter = calls.exit

\* C6: in every reachable state the overlay is present iff BUSY_DEPTH > 0
\* and at most one overlay is attached; a step attaches an overlay only
\* when it takes the counter from 0 to 1 and detaches one only when it
\* takes the counter from 1 to 0.
C6_OverlayIffDepth ==
    /\ BUSY_OVERLAY <=> BUSY_DEPTH > 0
    /\ [][/\ BUSY_OVERLAY' <=> BUSY_DEPTH' > 0
          /\ Window_busy' = IF BUSY_DEPTH' > 0 THEN 1 ELSE 0
          /\ Window_busy' > Window_busy => BUSY_DEPTH = 0 /\ BUSY_DEPTH' = 1
          /\ Window_busy' < Window_busy => BUSY_DEPTH = 1 /\ BUSY_DEPTH' = 0]_vars

\* a nested show: two calls outstanding, one overlay
C6_Witness == BUSY_DEPTH = 2 /\ BUSY_OVERLAY /\ Window_busy = 1

\* C7: BUSY_DEPTH is never negative, and a hide call issued when the
\* counter is 0 leaves it at 0.
C7_DepthNeverNegative ==
    /\ BUSY_DEPTH >= 0
    /\ [][/\ BUSY_DEPTH' >= 0
          /\ BUSY_DEPTH = 0 /\ calls'.exit > calls.exit => BUSY_DEPTH' = 0]_vars

\* a hide call was issued at 0
C7_Witness == calls.floored > 0 /\ BUSY_DEPTH = 0 /\ calls.enter = 0

\* The run_bg job whose _after ran in the latest step, if one did.
JobDone == last_step.done

RanAfter == JobDone.kind \in RunBgKinds

\* C1: for every run_bg job with an on_done callback, on_done is invoked
\* exactly once and only after fn has finished, by returning or by raising,
\* whatever other jobs are in flight: a job in flight has not had its
\* callback invoked and has its _after queued iff its body is over, and a
\* job leaves with one invocation made after its body.
C1_OnDoneExactlyOnce ==
    /\ \A r \in BagToSet(jobs) :
         r.kind \in RunBgKinds =>
            /\ r.calls = 0
            /\ r.sched <=> r.body \in {"returned", "raised"}
    /\ RanAfter /\ JobDone.cb =>
         /\ JobDone.calls = 1
         /\ JobDone.body \in {"returned", "raised"}
         /\ ~JobDone.sched

\* a callback ran for a body that raised while another job waits for its own
C1_Witness ==
    /\ RanAfter /\ JobDone.cb /\ JobDone.calls = 1 /\ JobDone.body = "raised"
    /\ \E r \in BagToSet(jobs) : r.kind \in RunBgKinds /\ r.cb /\ r.sched

\* C2: when fn raises, on_done receives (None, the error raised); when fn
\* returns v, on_done receives (v, None); the job that raised ends like any
\* other and leaves the other threads in flight as they were.
C2_ResultOrFailure ==
    RanAfter /\ JobDone.cb =>
        /\ JobDone.body = "returned" =>
              /\ [raised |-> FALSE, value |-> JobDone.got[1]] \in Outcomes(JobDone.kind)
              /\ JobDone.got[2] = PyNone
        /\ JobDone.body = "raised" =>
              /\ [raised |-> TRUE, value |-> JobDone.got[2]] \in Outcomes(JobDone.kind)
              /\ JobDone.got[1] = PyNone

\* a failure was delivered while a later body is still running
C2_Witness ==
    /\ RanAfter /\ JobDone.body = "raised"
    /\ JobDone.got = <<PyNone, "RuntimeError">>
    /\ \E r \in BagToSet(jobs) : r.body = "pending"

\* C3: every completion callback and every write of a State Store field,
\* with the notifications it causes, runs on the coordinating thread.
C3_CompletionsOnMain ==
    \A a \in last_step.access :
        (a[2] = "on_done" \/ (a[2] = "UiState" /\ a[3] = "write")) => a[1] = "main"

\* a completion wrote the store and notified observers
C3_Witness ==
    /\ <<"main", "on_done", "call">> \in last_step.access
    /\ <<"main", "UiState", "write">> \in last_step.access
    /\ last_step.notifs # <<>>

\* C4 as stated: the State Store, the data it owns and the Busy Guard
\* counter are read and written from the coordinating thread only.  It
\* fails in the first collection pass, which reads host_iface, ap_iface,
\* vpn_name and the hostapd cache in its thread.
C4_AsStated ==
    \A a \in last_step.access :
        a[2] \in {"UiState", "_hostapd_cache", "BUSY_DEPTH"} => a[1] = "main"

\* The operations in progress that took the Busy Guard: the jobs in flight
\* whose completion hides, and the pending 15 s events of reboot/shutdown.
GuardedKinds ==
    {"scan", "connect", "disconnect", "speedtest", "vpn_toggle", "vpn_disconnect"}

GuardedJobs == {r \in BagToSet(jobs) : r.kind \in GuardedKinds}

NotEnded == BagCardinality([r \in GuardedJobs |-> jobs[r]]) + timers["reboot_hide"]

\* C8: across any interleaving of the operations that use the Busy Guard,
\* BUSY_DEPTH equals the number of operations begun and not yet ended, and
\* the indicator is visible exactly while one is outstanding.
C8_DepthCountsOperations ==
    /\ BUSY_DEPTH = NotEnded
    /\ Visible <=> NotEnded > 0

\* a reboot confirmation overlapping two other operations
C8_Witness ==
    /\ timers["reboot_hide"] = 1
    /\ BagCardinality([r \in GuardedJobs |-> jobs[r]]) = 2
    /\ BUSY_DEPTH = 3

\* The eleven fields of a Snapshot, in the order the specification declares.
SnapshotFields ==
    <<"net_status", "client_ssid", "ap_status", "ap_ssid", "ip_address",
      "connected_clients", "cpu_temp", "hostname", "uptime", "vpn_status",
      "vpn_name">>

Range(q) == {q[i] : i \in 1..Len(q)}

\* The value a pass has for a field: the one it collected, or the default
\* that stands for a probe that failed.
ValueOf(snap, k) == IF k \in DOMAIN snap THEN snap[k] ELSE UiStateDefaults[k]

\* C9 as stated: once an apply_snapshot has run, the eleven Snapshot fields
\* of the store all equal the values of the pass applied last.  It fails
\* when that pass could not read the temperature: its dict has no cpu_temp
\* and the store keeps the cpu_temp of an earlier pass beside the ten
\* fields of the last one.
C9_AsStated ==
    last_snap # NoSnap =>
        \A k \in Range(SnapshotFields) : UiState[k] = ValueOf(last_snap, k)

\* The latest step was an apply_snapshot callback.
Applied == last_step.done.kind = "collect" /\ last_step.done.calls = 1

\* C10 as stated: apply_snapshot notifies once for each changed field and
\* not for the others, in the declared order of the Snapshot fields.
C10_AsStated ==
    Applied =>
        last_step.notifs = SelectSeq(SnapshotFields, LAMBDA k : k \in last_step.changed)

\* C10, amended: apply_snapshot notifies once for each field of the
\* snapshot whose value differs from the stored one and not for the others,
\* in the order in which collect_snapshot inserted the keys (net_status,
\* client_ssid, ap_status, cpu_temp, hostname, uptime, connected_clients,
\* ap_ssid, ip_address, vpn_status, vpn_name).
C10_NotifyChangedInInsertionOrder ==
    Applied =>
        last_step.notifs = SelectSeq(items(last_snap), LAMBDA k : k \in last_step.changed)

\* an apply that changed some fields, left others, and notified ap_ssid
\* after hostname
C10_Witness ==
    /\ Applied
    /\ last_step.changed # {}
    /\ last_step.changed # DOMAIN last_snap
    /\ \E i, j \in 1..Len(last_step.notifs) :
         i < j /\ last_step.notifs[i] = "hostname" /\ last_step.notifs[j] = "ap_ssid"

\* The update_async pass whose thread ended in the latest step, if one did.
PassEnded == last_step.done.kind = "collect"

\* C11 as stated: every update_async call is followed by exactly one
\* apply_snapshot of the snapshot it collected, so a pass that has ended
\* has had its snapshot applied once.  It fails when collect_snapshot
\* raises: _work has no try, the thread ends and nothing is scheduled.
C11_AsStated ==
    PassEnded =>
        /\ last_step.done.calls = 1
        /\ last_step.done.snap # NoSnap
        /\ last_snap = last_step.done.snap

\* C12: the poller does not serialize its ticks and no generation check
\* drops a snapshot: whenever the snapshot of a pass is applied, also one of
\* a tick older than a tick already applied, the store takes every field
\* of that snapshot.
C12_OlderSnapshotOverwrites ==
    Applied =>
        /\ last_snap = last_step.done.snap
        /\ \A k \in DOMAIN last_step.done.snap : UiState[k] = last_step.done.snap[k]

\* the snapshot of tick 1 was applied after that of tick 2 and changed the
\* store
C12_Witness ==
    /\ Applied
    /\ last_step.done.tick = 1
    /\ newest = 2
    /\ last_step.changed # {}

\* StatePoller.stop has been called.
Stopped == events.started /\ ~events.poller

\* C13 as stated: after stop the poller event submits no collection, and
\* every pass submitted before stop still ends with its snapshot applied.
\* The second part fails for a pass whose collect_snapshot raises.
C13_AsStated ==
    Stopped =>
        /\ last_step.event # "poller"
        /\ PassEnded =>
              /\ last_step.done.calls = 1
              /\ last_snap = last_step.done.snap

\* The trigger properties among the notifications of a step.
TriggerNotifs(step) == SelectSeq(step.notifs, LAMBDA k : k \in GeoipTriggers)

\* C14: a burst of changes of the trigger properties, each less than the
\* debounce delay after the one before, leads to exactly one lookup,
\* submitted no earlier than the delay after the last change: every change
\* leaves one event pending with its whole delay ahead, the event fires only
\* once its delay is over, and firing submits one lookup and leaves no event
\* pending.
C14_DebounceOneLookup ==
    [][/\ TriggerNotifs(last_step') # <<>> => _geoip_pending' = "armed"
       /\ _geoip_pending = "armed" => _geoip_pending' \in {"armed", "due"}
       /\ _geoip_pending' = "fired" /\ _geoip_pending # "fired" =>
             /\ _geoip_pending = "due"
             /\ last_step'.event = "debounce"
             /\ jobs' = update_geoip_async(jobs)
       /\ last_step'.event = "debounce" =>
             _geoip_pending = "due" /\ _geoip_pending' = "fired"]_vars

\* one apply changed three trigger properties of a later pass and one event
\* is pending
C14_Witness ==
    /\ Applied
    /\ last_step.done.tick > 0
    /\ Len(TriggerNotifs(last_step)) >= 3
    /\ _geoip_pending = "armed"

\* C15: the periodic event and the debounce path do not touch each other:
\* no step cancels the periodic event, and a periodic firing submits one
\* lookup and leaves the debounce event as it was.
C15_PeriodicIndependent ==
    [][/\ events.geoip_periodic => events'.geoip_periodic
       /\ last_step'.event = "geoip_periodic" =>
             /\ _geoip_pending' = _geoip_pending
             /\ jobs' = update_geoip_async(jobs)]_vars

\* the periodic event fired while a debounce event was waiting
C15_Witness ==
    /\ last_step.event = "geoip_periodic"
    /\ _geoip_pending = "armed"
    /\ events.geoip_periodic

\* C16: a lookup that completes with a failure sets geoip to "Unknown", one
\* that completes with a result sets geoip to the result.
C16_GeoipUnknownOnFailure ==
    last_step.done.kind = "geoip" =>
        UiState.geoip = IF last_step.done.body = "raised"
                        THEN "Unknown"
                        ELSE last_step.done.got[1]

\* a failed lookup replaced the place found before
C16_Witness ==
    /\ last_step.done.kind = "geoip"
    /\ last_step.done.body = "raised"
    /\ last_step.notifs = <<"geoip">>
    /\ UiState.geoip = "Unknown"

\* The jobs of the given kinds in a bag of jobs, counted with multiplicity.
CountJobs(js, kinds) ==
    LET of == {r \in BagToSet(js) : r.kind \in kinds} IN
    BagCardinality([r \in of |-> js[r]])

\* C17: whatever the sequence of _connect_to calls, at most one connect job
\* is in flight, and _connecting is set exactly while one is.
C17_OneConnectJob ==
    /\ CountJobs(jobs, {"connect"}) <= 1
    /\ _connecting <=> CountJobs(jobs, {"connect"}) = 1

\* A _connect_to call was just made while a connect job was in flight and
\* another job could have been started.
C17_Witness ==
    /\ last_step.event = "_connect_to"
    /\ last_step.access = {}
    /\ CountJobs(jobs, {"connect"}) = 1
    /\ Room(1)

\* C18: while _connecting is set, no step submits a scan job or a
\* disconnect job, whichever handler is called.
C18_NoScanWhileConnecting ==
    [][_connecting =>
         CountJobs(jobs', {"scan", "disconnect"}) <= CountJobs(jobs, {"scan", "disconnect"})]_vars

\* refresh_networks or on_disconnect was just called while a connect job was
\* in flight and another job could have been started.
C18_Witness ==
    /\ last_step.event \in {"refresh_networks", "on_disconnect"}
    /\ last_step.access = {}
    /\ _connecting
    /\ Room(1)

\* C19: the connect job succeeds exactly when the primary backend reports
\* success, or it fails and nmcli is available and reports success; nmcli is
\* called exactly when the primary backend failed and nmcli is available, and
\* after the primary backend.
C19_ConnectOutcome ==
    last_step.task.job = "connect" =>
        LET t == last_step.task IN
        /\ ~t.raised <=> (t.wpa_ok \/ (~t.wpa_ok /\ t.has_nmcli /\ t.nm_ok))
        /\ t.called[1] = "wpa_cli"
        /\ ("nmcli" \in Range(t.called)) <=> (~t.wpa_ok /\ t.has_nmcli)

\* The primary backend failed, nmcli was there and connected: the job succeeded.
C19_Witness ==
    /\ last_step.task.job = "connect"
    /\ ~last_step.task.wpa_ok
    /\ last_step.task.has_nmcli
    /\ last_step.task.nm_ok
    /\ ~last_step.task.raised

\* C20: the completion of a successful connect job starts exactly one state
\* refresh and no lookup, and schedules one lookup; the lookup is submitted by
\* the step in which that delayed event fires.
C20_RefreshThenDelayedLookup ==
    [][/\ (last_step'.done.kind = "connect" /\ last_step'.done.body = "returned") =>
            /\ CountJobs(jobs', {"collect"}) = CountJobs(jobs, {"collect"}) + 1
            /\ CountJobs(jobs', {"geoip"}) = CountJobs(jobs, {"geoip"})
            /\ timers' = [timers EXCEPT !["geoip_settle"] = @ + 1]
       /\ last_step'.event = "geoip_settle" =>
            /\ timers' = [timers EXCEPT !["geoip_settle"] = @ - 1]
            /\ jobs' = update_geoip_async(jobs)]_vars

\* A connect job has just completed with success: the refresh is in flight,
\* the lookup is scheduled and not yet submitted.
C20_Witness ==
    /\ last_step.done.kind = "connect"
    /\ last_step.done.body = "returned"
    /\ last_step.done.calls = 1
    /\ timers["geoip_settle"] = 1
    /\ CountJobs(jobs, {"collect"}) = 1
    /\ CountJobs(jobs, {"geoip"}) = 0

\* C21: the completion of a failed connect job shows one error notice,
\* leaves every field of the store as it was, starts no refresh and no
\* lookup and schedules none.
C21_FailedConnectLeavesStore ==
    [][(last_step'.done.kind = "connect" /\ last_step'.done.body = "raised") =>
         /\ last_step'.messages = <<"Wi-Fi">>
         /\ UiState' = UiState
         /\ CountJobs(jobs', {"collect", "geoip"}) = CountJobs(jobs, {"collect", "geoip"})
         /\ timers' = timers]_vars

\* A connect job has just failed while the store held a polled state.
C21_Witness ==
    /\ last_step.done.kind = "connect"
    /\ last_step.done.body = "raised"
    /\ last_step.done.got = <<PyNone, "RuntimeError">>
    /\ last_step.messages = <<"Wi-Fi">>
    /\ UiState.client_ssid = "Home"

\* C22: every disconnect runs the address flush, once and as its last
\* command, after the sequence of the backend it chose (nmcli when there,
\* else wpa_cli), whatever that sequence did; the body does not raise.
C22_FlushAfterBackend ==
    last_step.task.job = "disconnect" =>
        LET t == last_step.task IN
        /\ Len(t.ran) >= 2
        /\ t.ran[Len(t.ran)] = "ip addr flush"
        /\ \A i \in 1..(Len(t.ran) - 1) : t.ran[i] # "ip addr flush"
        /\ t.ran[1] = (IF t.has_nmcli THEN "nmcli device disconnect"
                                      ELSE "wpa_cli disconnect")
        /\ ~t.raised

\* The wpa_cli sequence raised at its first command and the flush ran.
C22_Witness ==
    /\ last_step.task.job = "disconnect"
    /\ ~last_step.task.has_nmcli
    /\ last_step.task.answer = "raised"
    /\ last_step.task.ran = <<"wpa_cli disconnect", "ip addr flush">>

\* The body of a scan job has just returned: what it was given and what it
\* computed.
ScanRan == last_step.task.job = "scan" /\ ~last_step.task.out.raised
ScanIn == last_step.task.a
ScanOut == last_step.task.out

C24_MergeKeepsStrongest ==
    ScanRan =>
        LET nm == ScanOut.nm
            wp == ScanOut.wp
            merged == ScanOut.merged
        IN
          /\ Keys(merged) = Keys(nm) \cup Keys(wp)
          /\ Len(merged) = Cardinality(Keys(merged))
          /\ \A k \in Keys(nm) \ Keys(wp) : Item(merged, k) = Item(nm, k)
          /\ \A k \in Keys(wp) \ Keys(nm) : Item(merged, k) = Item(wp, k)
          /\ \A k \in Keys(nm) \cap Keys(wp) :
               /\ Item(merged, k).signal >= Item(nm, k).signal
               /\ Item(merged, k).signal >= Item(wp, k).signal
               /\ Item(merged, k) \in {Item(nm, k), Item(wp, k)}
               /\ Item(nm, k).signal = Item(wp, k).signal =>
                    Item(merged, k) = Item(nm, k)

\* Home was seen by both backends with the same signal, Cafe stronger by
\* wpa_cli.
C24_Witness ==
    /\ ScanRan
    /\ {Home, Cafe} \subseteq (Keys(ScanOut.nm) \cap Keys(ScanOut.wp))
    /\ Item(ScanOut.nm, Home).signal = Item(ScanOut.wp, Home).signal
    /\ Item(ScanOut.nm, Cafe).signal < Item(ScanOut.wp, Cafe).signal
    /\ Item(ScanOut.merged, Cafe) = Item(ScanOut.wp, Cafe)

\* The example of the specification: saved {Home, Office}, scan Home at 80
\* and Cafe at 60, Home associated.
ScanExample ==
    /\ ScanRan
    /\ ScanOut.saved = {Home, Office}
    /\ Keys(ScanOut.merged) = {Home, Cafe}
    /\ Item(ScanOut.merged, Home).signal = 80
    /\ Item(ScanOut.merged, Cafe).signal = 60
    /\ last_step.task.current_ssid = Home

\* C25: in_range has one entry for each SSID that is in the merged scan and
\* in the saved set, and no other; an entry has the merged signal and
\* security, and current tells whether it is the associated SSID.  In the
\* example in_range is [Home/80/current] and out_of_range is [Office].
C25_InRangeIsSavedScan ==
    ScanRan =>
        LET in_range == ScanOut.value.in_range
            merged == ScanOut.merged
        IN
          /\ {in_range[i].ssid : i \in 1..Len(in_range)} = Keys(merged) \cap ScanOut.saved
          /\ Len(in_range) = Cardinality(Keys(merged) \cap ScanOut.saved)
          /\ \A i \in 1..Len(in_range) :
               /\ in_range[i].signal = Item(merged, in_range[i].ssid).signal
               /\ in_range[i].security = Item(merged, in_range[i].ssid).security
               /\ in_range[i].current = (in_range[i].ssid = last_step.task.current_ssid)
          /\ ScanExample =>
               /\ Len(in_range) = 1
               /\ in_range[1].ssid = Home /\ in_range[1].signal = 80 /\ in_range[1].current
               /\ ScanOut.value.out_of_range = <<Office>>

C25_Witness ==
    /\ ScanExample
    /\ Len(ScanOut.value.in_range) = 1
    /\ ScanOut.value.out_of_range = <<Office>>

\* C26: in in_range the entry of the current network, when there is one, is
\* the first, and the other entries are in non-increasing order of signal.
C26_CurrentFirstThenSignal ==
    ScanRan =>
        LET in_range == ScanOut.value.in_range IN
        /\ \A i \in 1..Len(in_range) : in_range[i].current => i = 1
        /\ \A i, j \in 1..Len(in_range) :
             (i < j /\ ~in_range[i].current) => in_range[i].signal >= in_range[j].signal

\* Three networks in range: the current one first though it is weaker than
\* the next and was merged later, then the stronger of the other two.
C26_Witness ==
    /\ ScanRan
    /\ Len(ScanOut.value.in_range) = 3
    /\ ScanOut.value.in_range[1].current
    /\ ScanOut.value.in_range[1].signal < ScanOut.value.in_range[2].signal
    /\ ScanOut.value.in_range[2].signal > ScanOut.value.in_range[3].signal
    /\ ScanOut.merged[1].ssid # ScanOut.value.in_range[1].ssid

\* C27: out_of_range lists, in ascending order and once each, the saved
\* networks that are neither in in_range nor the current SSID.
C27_OutOfRange ==
    ScanRan =>
        LET in_range == ScanOut.value.in_range
            out == ScanOut.value.out_of_range
            names == {in_range[i].ssid : i \in 1..Len(in_range)}
            current_ssid == last_step.task.current_ssid
        IN
          /\ Range(out) =
               (ScanOut.saved \ names) \ (IF current_ssid # <<>> THEN {current_ssid} ELSE {})
          /\ \A i \in 1..(Len(out) - 1) : str_lt(out[i], out[i + 1])
          /\ current_ssid \notin Range(out)
          /\ Range(out) \cap names = {}

\* Home is saved and associated but was not seen by the scan: it is in
\* neither list, and the two other saved networks are listed in order.
C27_Witness ==
    /\ ScanRan
    /\ last_step.task.current_ssid = Home
    /\ Home \in ScanOut.saved
    /\ ScanOut.value.in_range = <<>>
    /\ ScanOut.value.out_of_range = <<Cafe, Office>>

\* Every command of the scan failed.
AllFailed(a) ==
    a.saved_wpa.failed /\ a.saved_nm.failed /\ a.scan_nm.failed /\ a.scan_wp.failed

EmptyLists == [in_range |-> <<>>, out_of_range |-> <<>>]

\* C28: when every saved-network and scan command fails, the body returns
\* two empty lists, and the completion of a job that returned two empty
\* lists receives them without error and reports no failed scan.
C28_AllFailedIsEmptyResult ==
    /\ (last_step.task.job = "scan" /\ ScanIn.sudo /\ AllFailed(ScanIn)) =>
           /\ ~ScanOut.raised
           /\ ScanOut.value = EmptyLists
    /\ (last_step.done.kind = "scan" /\ last_step.done.body = "returned") =>
           /\ last_step.done.got = <<last_step.done.result, PyNone>>
           /\ "Scan failed" \notin Range(last_step.rows)
           /\ last_step.done.result = EmptyLists =>
                last_step.rows = <<"No saved networks found in range.">>

\* A scan whose commands all failed has just completed.
C28_Witness ==
    /\ last_step.done.kind = "scan"
    /\ last_step.done.body = "returned"
    /\ last_step.done.result = EmptyLists
    /\ last_step.rows = <<"No saved networks found in range.">>

\* C29 as stated: a step does process or network I/O only in the thread of
\* a job.  It fails when the Info screen refreshes and when the speed test
\* button is pressed: both run STATE._get_ip, a command, in the handler.
C29_AsStated ==
    \A a \in last_step.access :
        <<a[2], a[3]>> \in ProcessIO \cup NetworkIO => a[1] = "worker"

\* C30 as stated: when the debounce event has fired, the handle is None as
\* it was at the start.  It fails at
\* the firing: the event calls update_geoip_async and nothing assigns
\* _geoip_pending, which keeps the event that fired.
C30_AsStated ==
    last_step.event = "debounce" => _geoip_pending = "None"

\* C31: at most one debounce event is armed at any time: a trigger takes
\* the pending event out of the Clock before it schedules the new one, so
\* the Clock holds an event exactly when the handle refers to one that has
\* not run.
C31_OneDebounceArmed ==
    /\ Clock_debounce <= 1
    /\ Clock_debounce = 1 <=> _geoip_pending \in {"armed", "due"}

\* One apply changed two trigger properties: the second trigger found the
\* event of the first one pending, and one event is armed.
C31_Witness ==
    /\ Len(TriggerNotifs(last_step)) >= 2
    /\ Clock_debounce = 1

\* C33: a _connect_to call made while a connect job is in flight is
\* rejected silently: the step leaves _connecting, BUSY_DEPTH, the store and
\* the jobs in flight as they were and shows no notice.
C33_RejectedConnectIsSilent ==
    [][(CountJobs(jobs, {"connect"}) > 0 /\ last_step'.event = "_connect_to") =>
          /\ _connecting' = _connecting
          /\ BUSY_DEPTH' = BUSY_DEPTH
          /\ UiState' = UiState
          /\ jobs' = jobs
          /\ last_step'.messages = <<>>]_vars

\* _connect_to has just been called with a connect job in flight, and the
\* call did nothing.
C33_Witness ==
    /\ CountJobs(jobs, {"connect"}) = 1
    /\ last_step.event = "_connect_to"
    /\ last_step.access = {}

\* C35: when the body of the refresh pipeline raises, its completion
\* reports the failure once, with one 'Scan failed' row and no network
\* button or other notice, and releases the Busy Guard exactly once.
C35_FailedScanReportsOnce ==
    [][(last_step'.done.kind = "scan" /\ last_step'.done.body = "raised") =>
          /\ last_step'.done.got = <<PyNone, "FileNotFoundError">>
          /\ last_step'.rows = <<"Scan failed">>
          /\ last_step'.messages = <<>>
          /\ BUSY_DEPTH > 0
          /\ BUSY_DEPTH' = BUSY_DEPTH - 1]_vars

\* The completion of a scan whose body raised has run and took the
\* indicator down.
C35_Witness ==
    /\ JobDone.kind = "scan"
    /\ JobDone.body = "raised"
    /\ last_step.rows = <<"Scan failed">>
    /\ BUSY_DEPTH = 0
    /\ ~Visible

\* C36: at most one speed test is in flight at any time: after every step
\* _speedtest_running is set exactly while a speed-test job is in flight,
\* no step taken while it is set adds a speed-test job, and every
\* completion of a speed test, after success or failure, resets it and
\* releases the Busy Guard once.
C36_OneSpeedTest ==
    [][/\ CountJobs(jobs', {"speedtest"}) <= 1
       /\ _speedtest_running' <=> CountJobs(jobs', {"speedtest"}) = 1
       /\ _speedtest_running =>
             CountJobs(jobs', {"speedtest"}) <= CountJobs(jobs, {"speedtest"})
       /\ last_step'.done.kind = "speedtest" =>
             /\ ~_speedtest_running'
             /\ BUSY_DEPTH > 0
             /\ BUSY_DEPTH' = BUSY_DEPTH - 1]_vars

\* run_speed_test was called while a test was running and answered with a
\* notice only.
C36_Witness ==
    /\ _speedtest_running
    /\ CountJobs(jobs, {"speedtest"}) = 1
    /\ last_step.messages = <<"Speed Test">>
    /\ last_step.access = {}

\* C38 as stated: a Wi-Fi connect job and a Wi-Fi disconnect job are never
\* in flight at the same time.  It fails after on_disconnect, _connect_to:
\* on_disconnect sets no flag, so the connect is accepted while the
\* disconnect job runs.
C38_AsStated ==
    ~(CountJobs(jobs, {"connect"}) > 0 /\ CountJobs(jobs, {"disconnect"}) > 0)

\* C37 as stated: once a toggle completion has set vpn_status = ON and
\* vpn_name = P, with the VPN process running and no further toggle or
\* disconnect, every later store has vpn_name = P.  It fails when a pass
\* that read vpn_name in its thread before the completion is applied after
\* it: its snapshot carries the name read then.
C37_AsStated ==
    [][(UiState.vpn_status = "ON" /\ UiState.vpn_name \in VpnProfiles) =>
          UiState'.vpn_name = UiState.vpn_name]_vars

\* C39: the geolocation path has no feedback loop.  The completion of a
\* lookup writes no field but geoip, leaves the debounce event and its
\* handle as they were and submits no lookup; a debounce event is scheduled
\* only by a step that changed a trigger property, and each lookup the
\* debounce submits uses one event up, so the lookups it causes are no more
\* than the changes of net and VPN state.
C39_NoFeedback ==
    [][/\ last_step'.done.kind = "geoip" =>
             /\ \A k \in DOMAIN UiState \ {"geoip"} : UiState'[k] = UiState[k]
             /\ _geoip_pending' = _geoip_pending
             /\ Clock_debounce' = Clock_debounce
             /\ CountJobs(jobs', {"geoip"}) = CountJobs(jobs, {"geoip"}) - 1
       /\ Clock_debounce' > Clock_debounce =>
             /\ TriggerNotifs(last_step') # <<>>
             /\ "geoip" \notin Range(TriggerNotifs(last_step'))
       /\ last_step'.event = "debounce" =>
             /\ Clock_debounce' = Clock_debounce - 1
             /\ CountJobs(jobs', {"geoip"}) = CountJobs(jobs, {"geoip"}) + 1]_vars

\* The lookup the debounce event submitted has completed and changed geoip;
\* no event is armed and no lookup is in flight.
C39_Witness ==
    /\ JobDone.kind = "geoip"
    /\ last_step.notifs = <<"geoip">>
    /\ _geoip_pending = "fired"
    /\ Clock_debounce = 0
    /\ CountJobs(jobs, {"geoip"}) = 0

\* C40: the refresh result partitions the saved set: every saved SSID
\* other than the current one has exactly one place in in_range and
\* out_of_range together, and every SSID of either list is a saved SSID.
C40_ResultPartitionsSaved ==
    ScanRan =>
        LET in_range == ScanOut.value.in_range
            out == ScanOut.value.out_of_range
            current_ssid == last_step.task.current_ssid
            places(s) ==
                Cardinality({i \in 1..Len(in_range) : in_range[i].ssid = s})
                + Cardinality({i \in 1..Len(out) : out[i] = s})
        IN
          /\ \A s \in ScanOut.saved \ {current_ssid} : places(s) = 1
          /\ \A i \in 1..Len(in_range) : in_range[i].ssid \in ScanOut.saved
          /\ \A i \in 1..Len(out) : out[i] \in ScanOut.saved

\* Three saved networks: the current one and another in range, the third
\* out of range.
C40_Witness ==
    /\ ScanRan
    /\ last_step.task.current_ssid = Home
    /\ ScanOut.saved = {Home, Office, Cafe}
    /\ Len(ScanOut.value.in_range) = 2
    /\ ScanOut.value.in_range[1].ssid = Home
    /\ ScanOut.value.in_range[2].ssid = Office
    /\ ScanOut.value.out_of_range = <<Cafe>>

\* C34: the connect guard is always released: with the body of each
\* connect job ending and its completion run, a state with _connecting set
\* is always followed by one where it is reset, whether the attempt
\* succeeded or failed.
C34_GuardReleased == _connecting ~> ~_connecting

\* The completion of a connect attempt that failed has reset the guard.
C34_Witness ==
    /\ JobDone.kind = "connect"
    /\ JobDone.got = <<PyNone, "RuntimeError">>
    /\ last_step.messages = <<"Wi-Fi">>
    /\ ~_connecting
    /\ CountJobs(jobs, {"connect"}) = 0

\* A lookup whose body failed is in flight.
FailedLookup == \E r \in BagToSet(jobs) : r.kind = "geoip" /\ r.body = "raised"

\* C32: geoip corrects itself after a failed lookup has set it to
\* "Unknown": the periodic event keeps submitting lookups, so when from
\* some point on no lookup fails, geoip from some point on holds the result
\* of a successful one.
C32_SelfCorrects ==
    <>[]~FailedLookup => <>[](UiState.geoip = "Paris, France")

\* The completion of a failed lookup has just replaced a result by
\* "Unknown", and the periodic event is active.
C32_Witness ==
    /\ JobDone.kind = "geoip"
    /\ JobDone.body = "raised"
    /\ last_step.notifs = <<"geoip">>
    /\ UiState.geoip = "Unknown"
    /\ events.geoip_periodic

====
